---- MODULE Spec2Model ----
(***************************************************************************)
(* Triage pipeline of the important-email alerter: one triage run          *)
(* (EmailProcessor.process_all_accounts) over the active Gmail accounts,   *)
(* with the dedup gate, the deny/allow lists, the importance analyzer,     *)
(* the routing decision, the Pushover dispatch and the single commit at    *)
(* the end of the run.                                                     *)
(* Further specifications: the if / elif of the routing (SpecRouting),     *)
(* the digest (SpecDigest), the feedback requests and the learned          *)
(* patterns (SpecFeedback), the analyzer and the record of one message     *)
(* (SpecAnalyzer), triage runs with digest requests (SpecTriageDigest),    *)
(* and two triage runs that overlap (SpecConcurrent).                      *)
(*                                                                         *)
(* Scores are integers in thousandths (0.7 is 700); values persisted in a  *)
(* Numeric(3,2) column are integers in hundredths (0.70 is 70).            *)
(* An address is a tuple of one-character strings.                         *)
(***************************************************************************)
EXTENDS Integers, Sequences, FiniteSets, TLC

VARIABLES
    arrived,      \* mailbox of each account: messages 1..arrived[a] have arrived
    active,       \* GmailAccount.is_active: the set of active accounts
    config,       \* Config: thresholds read from the environment
    patterns,     \* learned_patterns table
    dbEmails,     \* processed_emails table (committed rows)
    dbLogs,       \* notification_log table (committed rows)
    dbAccounts,   \* gmail_accounts table: last_history_id, last_check
    sEmails,      \* ProcessedEmail objects added to the session, not flushed
    sLogs,        \* NotificationLog objects added to the session, not flushed
    sAccounts,    \* GmailAccount objects as modified in the session
    pc,           \* position of the run: idle, account, loop, commit, returned
    entry,        \* entrypoint of the run: check_now or script
    runs,         \* number of runs started
    queue,        \* accounts still to process in this run
    batch,        \* emails returned by the fetch of the current account
    idx,          \* position in batch of the next email
    result,       \* ProcessingResult of the current account
    outcomes,     \* what happened to each email of batch handled so far
    summary,      \* ProcessingSummary of the run
    lastCommit,   \* how the last run ended: none, ok, failed, noaccounts
    dbAtStart,    \* the committed tables when the run started
    alerts,       \* per (account, message): immediate alerts handed to Pushover
    routed,       \* a score, the thresholds of a processor, and the branch taken
    analysis,     \* one call of analyze_email: its arguments and how it ended
    digest,       \* send_digest: number of calls, and the last call
    feedback,     \* user_feedback table (committed rows)
    req           \* the feedback requests in progress, each with its session

vars == << arrived, active, config, patterns, dbEmails, dbLogs, dbAccounts,
           sEmails, sLogs, sAccounts, pc, entry, runs, queue, batch, idx,
           result, outcomes, summary, lastCommit, dbAtStart, alerts, routed,
           analysis, digest, feedback, req >>

\* what a triage run leaves alone
sideVars == << routed, analysis, digest, feedback, req >>

----------------------------------------------------------------------------
(* Bounds of the model *)

MaxRuns == 2

MaxBatch == 2

Accounts == {1, 2}

\* the messages that can arrive in the mailbox of account a
MsgIds(a) == {1, 2}

Keys == UNION { { << a, m >> : m \in MsgIds(a) } : a \in Accounts }

\* a NULL column, an attribute that is None
None == "None"

\* last_history_id of an account that was never checked (NULL)
NoHistoryId == 0

\* datetime.now(): the model keeps whether a timestamp is set, not its value
Now == "now"

\* the counters of alerts count 0, 1, and AlertCap for "more than once"
AlertCap == 2

----------------------------------------------------------------------------
(* Program constants, in thousandths *)

IMPORTANCE_THRESHOLD == 700

DIGEST_THRESHOLD_LOW == 500

DIGEST_THRESHOLD_HIGH == 690

WhitelistBoost == 150

DefaultOracleScore == 500

FallbackScore == 500

FallbackScoreWhitelisted == 650

HighPriorityScore == 800

Autoflush == FALSE

----------------------------------------------------------------------------
(* Strings *)

Min(a, b) == IF a < b THEN a ELSE b

Max(a, b) == IF a > b THEN a ELSE b

LowerCh(c) ==
    CASE c = "B" -> "b"
      [] c = "C" -> "c"
      [] c = "D" -> "d"
      [] c = "E" -> "e"
      [] c = "X" -> "x"
      [] c = "Y" -> "y"
      [] c = "Z" -> "z"
      [] OTHER -> c

Lower(s) == [i \in 1..Len(s) |-> LowerCh(s[i])]

RECURSIVE LStrip(_)
LStrip(s) == IF s # << >> /\ Head(s) = " " THEN LStrip(Tail(s)) ELSE s

RECURSIVE RStrip(_)
RStrip(s) ==
    IF s # << >> /\ s[Len(s)] = " " THEN RStrip(SubSeq(s, 1, Len(s) - 1)) ELSE s

Strip(s) == RStrip(LStrip(s))

HasAt(s) == \E i \in 1..Len(s) : s[i] = "@"

\* email_lower.split("@")[-1] if "@" in email_lower else ""
DomainOf(s) ==
    IF HasAt(s)
    THEN LET last == CHOOSE i \in 1..Len(s) :
                         /\ s[i] = "@"
                         /\ \A j \in (i + 1)..Len(s) : s[j] # "@"
         IN  SubSeq(s, last + 1, Len(s))
    ELSE << >>

----------------------------------------------------------------------------
(* The world outside: senders of the messages, the suppression lists *)

SenderOf(a, m) ==
    CASE a = 1 /\ m = 1 -> << "c", "@", "Y" >>
      [] a = 1 /\ m = 2 -> << "B", "@", "X" >>
      [] a = 2 /\ m = 1 -> << "D", "@", "x" >>
      [] OTHER          -> << "e", "@", "z" >>

BlacklistEntries ==
    { [entry_type |-> "email",  value |-> << "b", "@", "x" >>, is_active |-> TRUE],
      [entry_type |-> "domain", value |-> << "y" >>,           is_active |-> TRUE],
      [entry_type |-> "domain", value |-> << "z" >>,           is_active |-> FALSE],
      [entry_type |-> "email",  value |-> << "n" >>,           is_active |-> FALSE] }

WhitelistEntries ==
    { [entry_type |-> "domain", value |-> << "x" >>,           is_active |-> TRUE],
      [entry_type |-> "email",  value |-> << "c", "@", "y" >>, is_active |-> TRUE],
      [entry_type |-> "domain", value |-> << "z" >>,           is_active |-> FALSE] }

\* a lookup that compares the address as it was given, and no domain
is_blacklisted_exact(email) ==
    \E e \in BlacklistEntries : e.value = email /\ e.is_active

is_blacklisted(email) ==
    LET email_lower == Strip(Lower(email))
        domain      == DomainOf(email_lower)
        email_match == \E e \in BlacklistEntries :
                           /\ e.entry_type = "email"
                           /\ e.value = email_lower
                           /\ e.is_active
    IN  IF email_match THEN TRUE
        ELSE IF domain # << >>
             THEN \E e \in BlacklistEntries :
                      /\ e.entry_type = "domain"
                      /\ e.value = domain
                      /\ e.is_active
             ELSE FALSE

is_whitelisted(email) ==
    LET email_lower == Strip(Lower(email))
        domain      == DomainOf(email_lower)
    IN  \/ \E e \in WhitelistEntries :
               e.entry_type = "email" /\ e.value = email_lower /\ e.is_active
        \/ /\ domain # << >>
           /\ \E e \in WhitelistEntries :
                  e.entry_type = "domain" /\ e.value = domain /\ e.is_active

----------------------------------------------------------------------------
(* Learned patterns (read by the analyzer) *)

PatternChoices ==
    { {},
      { [pattern_type |-> "sender", pattern_value |-> << "d", "@", "x" >>,
         score_adjustment |-> -15, feedback_count |-> 1],
        [pattern_type |-> "domain", pattern_value |-> << "x" >>,
         score_adjustment |-> -8, feedback_count |-> 1],
        [pattern_type |-> "domain", pattern_value |-> << "z" >>,
         score_adjustment |-> 5, feedback_count |-> 1] } }

get_adjustment(pats, pattern_type, pattern_value) ==
    { p \in pats : /\ p.pattern_type = pattern_type
                   /\ p.pattern_value = Lower(pattern_value) }

RECURSIVE SumAdjustments(_)
SumAdjustments(ps) ==
    IF ps = {} THEN 0
    ELSE LET p == CHOOSE q \in ps : TRUE
         IN  p.score_adjustment * 10 + SumAdjustments(ps \ {p})

\* float(score_adjustment) of the sender pattern plus that of the domain
\* pattern, in thousandths
get_total_adjustment(pats, email_address) ==
    LET email_lower == Strip(Lower(email_address))
        domain      == DomainOf(email_lower)
    IN  SumAdjustments(get_adjustment(pats, "sender", email_lower))
        + (IF domain # << >>
           THEN SumAdjustments(get_adjustment(pats, "domain", domain))
           ELSE 0)

\* ClaudeAnalyzer._get_learned_adjustment: 0.0 without a database session
get_learned_adjustment(has_session, pats, sender_email) ==
    IF ~has_session THEN 0 ELSE get_total_adjustment(pats, sender_email)

----------------------------------------------------------------------------
(* The oracle and the analyzer *)

\* What the call of the oracle gives: a transport error, text that is no
\* JSON, JSON without a score, or JSON with a score (any number).
OracleReply(kind, score) == [kind |-> kind, score |-> score]

\* the replies the oracle may give for message m of account a
OracleReplies(a, m) ==
    IF m = 1
    THEN { OracleReply("api_error", 0), OracleReply("malformed", 0),
           OracleReply("score", 600) }
    ELSE { OracleReply("api_error", 0), OracleReply("no_score", 0),
           OracleReply("score", -200), OracleReply("score", 1200) }

\* ClaudeAnalyzer.analyze_email, for a reply that does not raise
analyze_email(reply, whitelisted, has_session, pats, sender_email) ==
    IF reply.kind = "malformed"
    THEN IF ~whitelisted THEN FallbackScore ELSE FallbackScoreWhitelisted
    ELSE LET base    == IF reply.kind = "no_score" THEN DefaultOracleScore
                        ELSE reply.score
             boosted == IF whitelisted THEN Min(1000, base + WhitelistBoost)
                        ELSE base
             learned == get_learned_adjustment(has_session, pats, sender_email)
         IN  IF has_session /\ learned # 0
             THEN Max(0, Min(1000, boosted + learned))
             ELSE boosted

\* round(score, 2) as a number of hundredths (a tie goes to the even one)
Round2(x) ==
    LET q == x \div 10
        r == x % 10
    IN  IF r < 5 THEN q
        ELSE IF r > 5 THEN q + 1
        ELSE IF q % 2 = 0 THEN q ELSE q + 1

----------------------------------------------------------------------------
(* Configuration and routing *)

DefaultConfig ==
    [importance_threshold  |-> IMPORTANCE_THRESHOLD,
     digest_enabled        |-> TRUE,
     digest_threshold_low  |-> DIGEST_THRESHOLD_LOW,
     digest_threshold_high |-> DIGEST_THRESHOLD_HIGH]

\* Config.from_env: each threshold is read from its own environment variable
ConfigChoices ==
    { DefaultConfig,
      [DefaultConfig EXCEPT !.digest_enabled = FALSE,
                            !.importance_threshold = 600] }

\* The parameters the entrypoint hands to EmailProcessor: the script passes
\* no digest setting, so the constructor's defaults apply.
ProcessorParams(ent, cfg) ==
    IF ent = "check_now" THEN cfg
    ELSE [DefaultConfig EXCEPT
              !.importance_threshold = cfg.importance_threshold]

\* a routing whose notify threshold is exclusive
RouteExclusive(score, params) ==
    IF score > params.importance_threshold THEN "notify"
    ELSE IF /\ params.digest_enabled
            /\ score >= params.digest_threshold_low
            /\ score <= params.digest_threshold_high
         THEN "digest"
         ELSE "ignore"

\* the if / elif of _process_single_email
Route(score, params) ==
    IF score >= params.importance_threshold THEN "notify"
    ELSE IF /\ params.digest_enabled
            /\ score >= params.digest_threshold_low
            /\ score <= params.digest_threshold_high
         THEN "digest"
         ELSE "ignore"

\* no email is at the if / elif
NoRouting == [score |-> 0, params |-> DefaultConfig, route |-> "none"]

----------------------------------------------------------------------------
(* Tables, session and results *)

EmptyResult(a) ==
    [account_email |-> a, emails_fetched |-> 0, emails_analyzed |-> 0,
     notifications_sent |-> 0, errors |-> << >>]

EmptySummary ==
    [accounts_processed |-> 0, total_emails_fetched |-> 0,
     total_emails_analyzed |-> 0, total_notifications_sent |-> 0,
     account_results |-> << >>, errors |-> << >>]

NewAccount == [last_history_id |-> NoHistoryId, last_check |-> None]

EmptySnapshot ==
    [emails |-> {}, logs |-> {}, accounts |-> [a \in Accounts |-> NewAccount]]

Snapshot == [emails |-> dbEmails, logs |-> dbLogs, accounts |-> dbAccounts]

\* a table without the unique constraint
NoConstraint(rows) == TRUE

\* uq_processed_account_message
UniqueConstraintHolds(rows) ==
    \A r1, r2 \in rows :
        (r1.gmail_account_id = r2.gmail_account_id
            /\ r1.message_id = r2.message_id) => r1 = r2

\* The rows a query of the session sees: the committed rows, and the pending
\* objects only if the session flushes before a query.
VisibleEmails == IF Autoflush THEN dbEmails \cup sEmails ELSE dbEmails

\* a check that never finds a record
never_processed(account_id, message_id) == FALSE

_is_already_processed(account_id, message_id) ==
    \E r \in VisibleEmails :
        r.gmail_account_id = account_id /\ r.message_id = message_id

\* the accounts of S by ascending id
AccountList(S) ==
    CHOOSE q \in [1..Cardinality(S) -> S] :
        \A i, j \in DOMAIN q : i < j => q[i] < q[j]

BoundedSeqs(S, n) == UNION { [1..k -> S] : k \in 0..n }

IsInjective(q) == \A i, j \in DOMAIN q : q[i] = q[j] => i = j

\* profile.historyId of the mailbox
HistoryId(a) == arrived[a] + 1

\* _fetch_via_history: the ids added since the checkpoint are collected in a
\* set, cut to max_results, and the messages whose details cannot be read
\* are left out.
fetch_via_history(a, since) ==
    { q \in BoundedSeqs({ m \in MsgIds(a) : since <= m /\ m <= arrived[a] }, MaxBatch) :
          IsInjective(q) }

\* _fetch_recent_emails: the listing of unread inbox messages as the API
\* returns it, up to max_results entries.
fetch_recent_emails(a) ==
    BoundedSeqs({ m \in MsgIds(a) : m <= arrived[a] }, MaxBatch)

\* GmailService.fetch_new_emails when it returns: the possible lists
fetch_new_emails(a, since, expired) ==
    IF since # NoHistoryId /\ ~expired
    THEN fetch_via_history(a, since)
    ELSE fetch_recent_emails(a)

\* process_all_accounts, after process_account has returned
AddResult(sum, res) ==
    [sum EXCEPT
        !.accounts_processed = @ + 1,
        !.total_emails_fetched = @ + res.emails_fetched,
        !.total_emails_analyzed = @ + res.emails_analyzed,
        !.total_notifications_sent = @ + res.notifications_sent,
        !.account_results = Append(@, res),
        !.errors = @ \o [i \in 1..Len(res.errors) |->
                             << res.account_email, res.errors[i] >>]]

Cur == Head(queue)

\* a loop over the accounts that is left after the first account
StopAtFirstAccount == "commit"

\* for account in accounts: the next account, or the commit
NextPc == IF Tail(queue) = << >> THEN "commit" ELSE "account"

----------------------------------------------------------------------------
(* Initial state *)

ActiveChoices == { {}, Accounts }

\* analyze_email has not been called
NoAnalysis ==
    [reply |-> OracleReply("score", 0), whitelisted |-> FALSE, entry |-> "none",
     pats |-> {}, sender |-> << >>, outcome |-> "none", score |-> 0]

\* send_digest has not been called
NoDigest ==
    [calls |-> 0, outcome |-> "none", success |-> TRUE, emails_included |-> 0,
     selected |-> {}, rendered |-> {}, log |-> << >>, sends |-> 0,
     first |-> << >>]

\* the feedback requests: two requests that the server may handle at once
Requests == { 1, 2 }

\* no feedback request is being handled
NoRequest ==
    [pc |-> "idle", email |-> << >>, feedback_type |-> "none",
     pending |-> {}, status |-> 0, served |-> 0]

Init ==
    /\ arrived = [a \in Accounts |-> IF a = 1 THEN Cardinality(MsgIds(a)) ELSE 0]
    /\ active \in ActiveChoices
    /\ config \in ConfigChoices
    /\ patterns \in PatternChoices
    /\ dbEmails = {}
    /\ dbLogs = {}
    /\ dbAccounts = [a \in Accounts |-> NewAccount]
    /\ sEmails = {}
    /\ sLogs = {}
    /\ sAccounts = [a \in Accounts |-> NewAccount]
    /\ pc = "idle"
    /\ entry = "none"
    /\ runs = 0
    /\ queue = << >>
    /\ batch = << >>
    /\ idx = 1
    /\ result = EmptyResult(0)
    /\ outcomes = << >>
    /\ summary = EmptySummary
    /\ lastCommit = "none"
    /\ dbAtStart = EmptySnapshot
    /\ alerts = [k \in Keys |-> [attempts |-> 0, sent |-> 0]]
    /\ routed = NoRouting
    /\ analysis = NoAnalysis
    /\ digest = NoDigest
    /\ feedback = {}
    /\ req = [q \in Requests |-> NoRequest]

----------------------------------------------------------------------------
(* External events *)

\* A new message is delivered to the inbox of account a.  (Only a fetch reads
\* the mailbox, so deliveries during a run are the same as deliveries
\* between runs.)
Arrive(a) ==
    /\ pc = "idle"
    /\ runs < MaxRuns
    /\ arrived[a] < Cardinality(MsgIds(a))
    /\ arrived' = [arrived EXCEPT ![a] = @ + 1]
    /\ UNCHANGED << active, config, patterns, dbEmails, dbLogs, dbAccounts,
                    sEmails, sLogs, sAccounts, pc, entry, runs, queue, batch,
                    idx, result, outcomes, summary, lastCommit, dbAtStart,
                    alerts, sideVars >>

----------------------------------------------------------------------------
(* process_all_accounts *)

\* The entrypoint opens a session and process_all_accounts queries the
\* active accounts (in the order of their ids).
StartRun(ent) ==
    /\ pc = "idle"
    /\ runs < MaxRuns
    /\ active # {}
    /\ runs' = runs + 1
    /\ entry' = ent
    /\ queue' = AccountList(active)
    /\ pc' = "account"
    /\ summary' = EmptySummary
    /\ sEmails' = {}
    /\ sLogs' = {}
    /\ sAccounts' = dbAccounts
    /\ dbAtStart' = Snapshot
    /\ lastCommit' = "none"
    /\ batch' = << >>
    /\ idx' = 1
    /\ outcomes' = << >>
    /\ result' = EmptyResult(0)
    /\ UNCHANGED << arrived, active, config, patterns, dbEmails, dbLogs,
                    dbAccounts, alerts, sideVars >>

\* if not accounts: return summary
StartRunNoAccounts(ent) ==
    /\ pc = "idle"
    /\ runs < MaxRuns
    /\ active = {}
    /\ runs' = runs + 1
    /\ entry' = ent
    /\ summary' = EmptySummary
    /\ lastCommit' = "noaccounts"
    /\ dbAtStart' = Snapshot
    /\ pc' = "returned"
    /\ UNCHANGED << arrived, active, config, patterns, dbEmails, dbLogs,
                    dbAccounts, sEmails, sLogs, sAccounts, queue, batch,
                    idx, result, outcomes, alerts, sideVars >>

\* process_account raises before its own try block (building GmailService):
\* the except branch of process_all_accounts
ProcessAccountRaises ==
    /\ pc = "account"
    /\ summary' = [summary EXCEPT
           !.errors = Append(@, << "Error processing", Cur, "exc" >>),
           !.account_results =
               Append(@, [EmptyResult(Cur) EXCEPT !.errors = << << "exc" >> >>])]
    /\ queue' = Tail(queue)
    /\ pc' = NextPc
    /\ UNCHANGED << arrived, active, config, patterns, dbEmails, dbLogs,
                    dbAccounts, sEmails, sLogs, sAccounts, entry, runs, batch,
                    idx, result, outcomes, lastCommit, dbAtStart,
                    alerts, sideVars >>

\* an except branch that notes the time of the check on the account
CheckedAnyway(account) == [account EXCEPT !.last_check = Now]

\* the account object after the except branch of the fetch: the assignments
\* of the checkpoint and of last_check were not reached
AfterFetchError(account) == account

\* fetch_new_emails raises: process_account records the error and returns
FetchFails ==
    /\ pc = "account"
    /\ sAccounts' = [sAccounts EXCEPT ![Cur] = AfterFetchError(@)]
    /\ LET res == [EmptyResult(Cur) EXCEPT
                       !.errors = << << "Failed to fetch emails", "exc" >> >>]
       IN  summary' = AddResult(summary, res)
    /\ queue' = Tail(queue)
    /\ pc' = NextPc
    /\ UNCHANGED << arrived, active, config, patterns, dbEmails, dbLogs,
                    dbAccounts, sEmails, sLogs, entry, runs, batch,
                    idx, result, outcomes, lastCommit, dbAtStart,
                    alerts, sideVars >>

\* fetch_new_emails returns (emails, new_history_id): the checkpoint and the
\* time of the check are set on the account before the loop
FetchReturns(expired) ==
    /\ pc = "account"
    /\ \E emails \in fetch_new_emails(Cur, sAccounts[Cur].last_history_id, expired) :
           /\ batch' = emails
           /\ result' = [EmptyResult(Cur) EXCEPT !.emails_fetched = Len(emails)]
    /\ sAccounts' = [sAccounts EXCEPT
           ![Cur] = [last_history_id |-> HistoryId(Cur), last_check |-> Now]]
    /\ idx' = 1
    /\ outcomes' = << >>
    /\ pc' = "loop"
    /\ UNCHANGED << arrived, active, config, patterns, dbEmails, dbLogs,
                    dbAccounts, sEmails, sLogs, entry, runs, queue, summary,
                    lastCommit, dbAtStart, alerts, sideVars >>

InLoop == pc = "loop" /\ idx <= Len(batch)

Email == batch[idx]

\* if self._is_already_processed(...): continue
SkipAlreadyProcessed ==
    /\ InLoop
    /\ _is_already_processed(Cur, Email)
    /\ idx' = idx + 1
    /\ outcomes' = Append(outcomes, "skipped")
    /\ UNCHANGED << arrived, active, config, patterns, dbEmails, dbLogs,
                    dbAccounts, sEmails, sLogs, sAccounts, pc, entry, runs,
                    queue, batch, result, summary, lastCommit, dbAtStart,
                    alerts, sideVars >>

\* _process_single_email returns None for a blacklisted sender
SkipBlacklisted ==
    /\ InLoop
    /\ ~_is_already_processed(Cur, Email)
    /\ is_blacklisted(SenderOf(Cur, Email))
    /\ idx' = idx + 1
    /\ outcomes' = Append(outcomes, "blacklisted")
    /\ UNCHANGED << arrived, active, config, patterns, dbEmails, dbLogs,
                    dbAccounts, sEmails, sLogs, sAccounts, pc, entry, runs,
                    queue, batch, result, summary, lastCommit, dbAtStart,
                    alerts, sideVars >>

\* a failure that ends the loop over the emails
LeaveLoop(i) == Len(batch) + 1

\* where the loop goes on after the except branch of one email
AfterEmailFailure(i) == i + 1

\* analyze_email raises (anthropic.APIError or another exception): the
\* except branch of the loop records the error
AnalyzeRaises ==
    /\ InLoop
    /\ ~_is_already_processed(Cur, Email)
    /\ ~is_blacklisted(SenderOf(Cur, Email))
    /\ result' = [result EXCEPT
           !.errors = Append(@, << "Failed to process email", Email, "api_error" >>)]
    /\ idx' = AfterEmailFailure(idx)
    /\ outcomes' = Append(outcomes, "error")
    /\ UNCHANGED << arrived, active, config, patterns, dbEmails, dbLogs,
                    dbAccounts, sEmails, sLogs, sAccounts, pc, entry, runs,
                    queue, batch, summary, lastCommit, dbAtStart, alerts, sideVars >>

----------------------------------------------------------------------------
(* _process_single_email, for a sender that is not blacklisted *)

\* a row that is written as sent whatever the transport reported
StatusSent(success) == "sent"

\* status of the NotificationLog row
NotificationStatus(success) == IF success THEN "sent" ELSE "failed"

\* a record that is born eligible for the digest
NewEligibleEmail(oid, a, m, whitelisted, score) ==
    [oid                  |-> oid,
     gmail_account_id     |-> a,
     message_id           |-> m,
     sender_email         |-> SenderOf(a, m),
     is_whitelisted       |-> whitelisted,
     importance_score     |-> Round2(score),
     analysis_score       |-> score,
     notification_sent    |-> FALSE,
     notification_sent_at |-> None,
     digest_eligible      |-> TRUE,
     digest_sent          |-> FALSE,
     digest_sent_at       |-> None]

NewProcessedEmail(oid, a, m, whitelisted, score) ==
    [oid                  |-> oid,
     gmail_account_id     |-> a,
     message_id           |-> m,
     sender_email         |-> SenderOf(a, m),
     is_whitelisted       |-> whitelisted,
     importance_score     |-> Round2(score),
     analysis_score       |-> score,
     notification_sent    |-> FALSE,
     notification_sent_at |-> None,
     digest_eligible      |-> FALSE,
     digest_sent          |-> FALSE,
     digest_sent_at       |-> None]

NewNotificationLog(oid, score, success) ==
    [lid               |-> oid,
     processed_email   |-> oid,
     notification_type |-> "pushover",
     priority          |-> IF score >= HighPriorityScore THEN 1 ELSE 0,
     status            |-> NotificationStatus(success)]

ProcessSingleEmail ==
    /\ InLoop
    /\ ~_is_already_processed(Cur, Email)
    /\ ~is_blacklisted(SenderOf(Cur, Email))
    /\ \E reply \in OracleReplies(Cur, Email) :
        /\ reply.kind # "api_error"
        /\ LET sender      == SenderOf(Cur, Email)
               whitelisted == is_whitelisted(sender)
               score       == analyze_email(reply, whitelisted, entry = "check_now",
                                            patterns, sender)
               route       == Route(score, ProcessorParams(entry, config))
               oid         == << Cur, Email,
                                 1 + Cardinality({ r \in sEmails :
                                         /\ r.gmail_account_id = Cur
                                         /\ r.message_id = Email }) >>
               fresh       == NewProcessedEmail(oid, Cur, Email, whitelisted, score)
           IN  \E success \in (IF route = "notify" THEN BOOLEAN ELSE {FALSE}) :
                 LET processed ==
                        IF route = "notify"
                        THEN IF success
                             THEN [fresh EXCEPT !.notification_sent = TRUE,
                                                !.notification_sent_at = Now]
                             ELSE fresh
                        ELSE IF route = "digest"
                             THEN [fresh EXCEPT !.digest_eligible = TRUE]
                             ELSE fresh
                 IN  /\ sEmails' = sEmails \cup {processed}
                     /\ sLogs' = IF route = "notify"
                                 THEN sLogs \cup {NewNotificationLog(oid, score, success)}
                                 ELSE sLogs
                     /\ alerts' =
                            IF route = "notify"
                            THEN [alerts EXCEPT ![<< Cur, Email >>] =
                                     [attempts |-> Min(AlertCap, @.attempts + 1),
                                      sent |-> Min(AlertCap,
                                          @.sent + (IF success THEN 1 ELSE 0))]]
                            ELSE alerts
                     /\ result' = [result EXCEPT
                            !.emails_analyzed = @ + 1,
                            !.notifications_sent =
                                @ + (IF processed.notification_sent THEN 1 ELSE 0)]
    /\ idx' = idx + 1
    /\ outcomes' = Append(outcomes, "processed")
    /\ UNCHANGED << arrived, active, config, patterns, dbEmails, dbLogs,
                    dbAccounts, sAccounts, pc, entry, runs, queue, batch,
                    summary, lastCommit, dbAtStart, sideVars >>

\* the loop of process_account is over: process_account returns its result
\* and process_all_accounts adds it to the summary
FinishAccount ==
    /\ pc = "loop"
    /\ idx > Len(batch)
    /\ summary' = AddResult(summary, result)
    /\ queue' = Tail(queue)
    /\ pc' = NextPc
    /\ batch' = << >>
    /\ idx' = 1
    /\ outcomes' = << >>
    /\ result' = EmptyResult(0)
    /\ UNCHANGED << arrived, active, config, patterns, dbEmails, dbLogs,
                    dbAccounts, sEmails, sLogs, sAccounts, entry, runs,
                    lastCommit, dbAtStart, alerts, sideVars >>

----------------------------------------------------------------------------
(* self.db.commit() at the end of process_all_accounts *)

\* a failed commit that leaves the pending rows in the table
KeepPending(committed, pending) == committed \cup pending

\* the rows of a table after a commit that failed and was rolled back
RollbackRows(committed, pending) == committed

CommitSucceeds ==
    /\ pc = "commit"
    /\ UniqueConstraintHolds(dbEmails \cup sEmails)
    /\ dbEmails' = dbEmails \cup sEmails
    /\ dbLogs' = dbLogs \cup sLogs
    /\ dbAccounts' = sAccounts
    /\ sEmails' = {}
    /\ sLogs' = {}
    /\ lastCommit' = "ok"
    /\ pc' = "returned"
    /\ UNCHANGED << arrived, active, config, patterns, sAccounts, entry, runs,
                    queue, batch, idx, result, outcomes, summary, dbAtStart,
                    alerts, sideVars >>

\* the commit raises (a violated unique constraint, or the database is
\* away): rollback, and the error goes into the summary
CommitFails ==
    /\ pc = "commit"
    /\ dbEmails' = RollbackRows(dbEmails, sEmails)
    /\ dbLogs' = RollbackRows(dbLogs, sLogs)
    /\ sEmails' = {}
    /\ sLogs' = {}
    /\ sAccounts' = dbAccounts
    /\ summary' = [summary EXCEPT
           !.errors = Append(@, << "Database commit failed", "exc" >>)]
    /\ lastCommit' = "failed"
    /\ pc' = "returned"
    /\ UNCHANGED << arrived, active, config, patterns, dbAccounts, entry, runs,
                    queue, batch, idx, result, outcomes, dbAtStart,
                    alerts, sideVars >>

\* process_all_accounts has returned the summary: the entrypoint answers
\* its caller and the session is closed
Respond ==
    /\ pc = "returned"
    /\ pc' = "idle"
    /\ entry' = "none"
    /\ summary' = EmptySummary
    /\ lastCommit' = "none"
    /\ dbAtStart' = EmptySnapshot
    /\ sAccounts' = dbAccounts
    /\ UNCHANGED << arrived, active, config, patterns, dbEmails, dbLogs,
                    dbAccounts, sEmails, sLogs, runs, queue, batch, idx,
                    result, outcomes, alerts, sideVars >>

----------------------------------------------------------------------------

Entrypoints == { "check_now", "script" }

Next ==
    \/ \E a \in Accounts : Arrive(a)
    \/ \E ent \in Entrypoints : StartRun(ent)
    \/ \E ent \in Entrypoints : StartRunNoAccounts(ent)
    \/ ProcessAccountRaises
    \/ FetchFails
    \/ \E expired \in BOOLEAN : FetchReturns(expired)
    \/ SkipAlreadyProcessed
    \/ SkipBlacklisted
    \/ AnalyzeRaises
    \/ ProcessSingleEmail
    \/ FinishAccount
    \/ CommitSucceeds
    \/ CommitFails
    \/ Respond

Spec == Init /\ [][Next]_vars

----------------------------------------------------------------------------
(* The runs whose commit succeeds *)

\* Every step of Next but a failing commit: a run whose pending rows break
\* the unique constraint cannot end here.
NextCommitsSucceed ==
    \/ \E a \in Accounts : Arrive(a)
    \/ \E ent \in Entrypoints : StartRun(ent)
    \/ \E ent \in Entrypoints : StartRunNoAccounts(ent)
    \/ ProcessAccountRaises
    \/ FetchFails
    \/ \E expired \in BOOLEAN : FetchReturns(expired)
    \/ SkipAlreadyProcessed
    \/ SkipBlacklisted
    \/ AnalyzeRaises
    \/ ProcessSingleEmail
    \/ FinishAccount
    \/ CommitSucceeds
    \/ Respond

SpecCommitsSucceed == Init /\ [][NextCommitsSucceed]_vars

----------------------------------------------------------------------------
(* The if / elif of _process_single_email on its own *)

\* the thresholds and scores tried are the multiples of RouteStep thousandths
RouteStep == 100

RouteSteps == 10

RouteThresholds == { RouteStep * i : i \in 0..RouteSteps }

RouteScores == { RouteStep * i : i \in (-2)..(RouteSteps + 2) }

\* EmailProcessor.__init__: the four settings are independent arguments
RouteParams ==
    [importance_threshold  : RouteThresholds,
     digest_enabled        : BOOLEAN,
     digest_threshold_low  : RouteThresholds,
     digest_threshold_high : RouteThresholds]

InitRouting ==
    /\ arrived = [a \in Accounts |-> 0]
    /\ active = {}
    /\ config = DefaultConfig
    /\ patterns = {}
    /\ dbEmails = {}
    /\ dbLogs = {}
    /\ dbAccounts = [a \in Accounts |-> NewAccount]
    /\ sEmails = {}
    /\ sLogs = {}
    /\ sAccounts = [a \in Accounts |-> NewAccount]
    /\ pc = "route"
    /\ entry = "none"
    /\ runs = 0
    /\ queue = << >>
    /\ batch = << >>
    /\ idx = 1
    /\ result = EmptyResult(0)
    /\ outcomes = << >>
    /\ summary = EmptySummary
    /\ lastCommit = "none"
    /\ dbAtStart = EmptySnapshot
    /\ alerts = [k \in Keys |-> [attempts |-> 0, sent |-> 0]]
    /\ routed \in [score : RouteScores, params : RouteParams, route : {"none"}]
    /\ analysis = NoAnalysis
    /\ digest = NoDigest
    /\ feedback = {}
    /\ req = [q \in Requests |-> NoRequest]

\* the branch taken for routed.score by a processor built with routed.params
ApplyRoute ==
    /\ pc = "route"
    /\ routed.route = "none"
    /\ routed' = [routed EXCEPT !.route = Route(routed.score, routed.params)]
    /\ UNCHANGED << arrived, active, config, patterns, dbEmails, dbLogs,
                    dbAccounts, sEmails, sLogs, sAccounts, pc, entry, runs,
                    queue, batch, idx, result, outcomes, summary, lastCommit,
                    dbAtStart, alerts, analysis, digest, feedback, req >>

NextRouting == ApplyRoute

SpecRouting == InitRouting /\ [][NextRouting]_vars

----------------------------------------------------------------------------
(* The digest: DigestService.send_digest behind POST /send-digest *)

\* build_digest_message renders emails[:10]
DigestRenderCap == 10

\* the most records that are ever eligible for a digest
MaxPending == 12

MaxDigestCalls == 2

\* the account whose messages are routed to the digest
DigestAccount == 2

\* analyzer scores inside the digest band; neighbours share a score, so that
\* order_by(importance_score.desc()) leaves their order to the database
DigestScore(m) == DIGEST_THRESHOLD_HIGH - 10 * (m \div 2)

\* the record of message m after _process_single_email took the digest branch
DigestRecord(m) ==
    [NewProcessedEmail(<< DigestAccount, m, 1 >>, DigestAccount, m,
                       is_whitelisted(SenderOf(DigestAccount, m)),
                       DigestScore(m))
        EXCEPT !.digest_eligible = TRUE]

\* a record that was notified at once, with its NotificationLog row
NotifiedOid == << 1, 3, 1 >>

NotifiedRecord ==
    [NewProcessedEmail(NotifiedOid, 1, 3, FALSE, HighPriorityScore)
        EXCEPT !.notification_sent = TRUE, !.notification_sent_at = Now]

\* datetime.now() of the n-th call of send_digest
DigestTime(n) == IF n = 1 THEN "t1" ELSE IF n = 2 THEN "t2" ELSE "t3"

\* no row: a foreign key that is NULL
NoRow == << >>

\* a query that leaves out the filter on digest_eligible
pending_not_sent(rows) == { r \in rows : ~r.digest_sent }

get_pending_digest_emails(rows) ==
    { r \in rows : r.digest_eligible /\ ~r.digest_sent }

\* the records that emails[:10] can hold: the query orders by the stored
\* score, and records of equal score come in any order
RenderedChoices(emails) ==
    { shown \in SUBSET emails :
        /\ Cardinality(shown) = Min(DigestRenderCap, Cardinality(emails))
        /\ \A r \in shown : \A q \in emails \ shown :
              r.importance_score >= q.importance_score }

\* the records that can be the last of the list, once emails[:10] is shown
LastChoices(emails, shown) ==
    LET rest == IF emails \ shown = {} THEN shown ELSE emails \ shown
    IN  { r \in rest : \A q \in rest : q.importance_score >= r.importance_score }

\* a first line that is any of the rendered records
AnyRenderedFirst(emails, shown, last) == shown

\* the records that can be line 1 of the message: the head of the ordered
\* list, which is the last of the list only when the list has one record
FirstChoices(emails, shown, last) ==
    { r \in shown :
        /\ \A q \in emails : r.importance_score >= q.importance_score
        /\ Cardinality(emails) > 1 => r # last }

\* the NotificationLog row of a digest.  email.notifications.append(log) sets
\* the one processed_email_id of the row, so after the loop the row points at
\* the last record of the list.
NewDigestLog(n, success, last) ==
    [lid               |-> << 0, 0, n >>,
     processed_email   |-> IF success THEN last.oid ELSE NoRow,
     notification_type |-> "digest",
     priority          |-> -1,
     status            |-> NotificationStatus(success)]

\* a loop that also counts the digest as the notification of the record
MarkDigestAndNotified(rows, emails, now) ==
    { IF r \in emails
      THEN [r EXCEPT !.digest_sent = TRUE, !.digest_sent_at = now,
                     !.notification_sent = TRUE, !.notification_sent_at = now]
      ELSE r : r \in rows }

\* a loop that marks only the records that were rendered
MarkRenderedOnly(rows, emails, now) ==
    LET shown == CHOOSE c \in RenderedChoices(emails) : TRUE
    IN  { IF r \in shown
          THEN [r EXCEPT !.digest_sent = TRUE, !.digest_sent_at = now]
          ELSE r : r \in rows }

\* the loop over emails after a successful send
MarkDigestSent(rows, emails, now) ==
    { IF r \in emails
      THEN [r EXCEPT !.digest_sent = TRUE, !.digest_sent_at = now]
      ELSE r : r \in rows }

\* records marked whatever the transport reported
MarkBeforeSend(rows, emails, now, success) == MarkDigestSent(rows, emails, now)

\* the processed_emails rows that send_digest commits
EmailsAfterDigest(rows, emails, now, success) ==
    IF success THEN MarkDigestSent(rows, emails, now) ELSE rows

\* what a digest request leaves alone
digestFrame ==
    << arrived, active, config, patterns, dbAccounts, sEmails, sLogs, sAccounts,
       pc, entry, runs, queue, batch, idx, result, outcomes, summary,
       lastCommit, dbAtStart, alerts, routed, analysis, feedback, req >>

InitDigest ==
    /\ arrived = [a \in Accounts |-> 0]
    /\ active = {}
    /\ config \in ConfigChoices
    /\ patterns = {}
    /\ \E n \in 0..MaxPending : \E notified \in BOOLEAN :
        /\ dbEmails = { DigestRecord(m) : m \in 1..n }
                        \cup (IF notified THEN {NotifiedRecord} ELSE {})
        /\ dbLogs = IF notified
                    THEN {NewNotificationLog(NotifiedOid, HighPriorityScore, TRUE)}
                    ELSE {}
    /\ dbAccounts = [a \in Accounts |-> NewAccount]
    /\ sEmails = {}
    /\ sLogs = {}
    /\ sAccounts = [a \in Accounts |-> NewAccount]
    /\ pc = "idle"
    /\ entry = "none"
    /\ runs = 0
    /\ queue = << >>
    /\ batch = << >>
    /\ idx = 1
    /\ result = EmptyResult(0)
    /\ outcomes = << >>
    /\ summary = EmptySummary
    /\ lastCommit = "none"
    /\ dbAtStart = EmptySnapshot
    /\ alerts = [k \in Keys |-> [attempts |-> 0, sent |-> 0]]
    /\ routed = NoRouting
    /\ analysis = NoAnalysis
    /\ digest = NoDigest
    /\ feedback = {}
    /\ req = [q \in Requests |-> NoRequest]

\* a triage run commits the record of one more message of the digest band
DigestEligibleCommitted ==
    /\ \E m \in 1..MaxPending :
        /\ \A r \in dbEmails : r.oid # << DigestAccount, m, 1 >>
        /\ \A k \in 1..(m - 1) :
              \E r \in dbEmails : r.oid = << DigestAccount, k, 1 >>
        /\ dbEmails' = dbEmails \cup {DigestRecord(m)}
    /\ UNCHANGED << dbLogs, digest >>
    /\ UNCHANGED digestFrame

\* POST /send-digest with DIGEST_ENABLED false: 400, send_digest is not called
SendDigestDisabled ==
    /\ digest.calls < MaxDigestCalls
    /\ ~config.digest_enabled
    /\ digest' = [calls |-> digest.calls + 1, outcome |-> "disabled",
                  success |-> FALSE, emails_included |-> 0,
                  selected |-> {}, rendered |-> {}, log |-> NoRow,
                  sends |-> digest.sends, first |-> NoRow]
    /\ UNCHANGED << dbEmails, dbLogs >>
    /\ UNCHANGED digestFrame

\* an answer that reports nothing to send as a failure
NoPendingFailure == [success |-> FALSE, emails_included |-> 0]

\* the dict returned when there is nothing to send
NoPendingResult == [success |-> TRUE, emails_included |-> 0]

\* send_digest with nothing pending: it returns before the transport is
\* called (digest.sends counts the calls of pushover.send_notification)
SendDigestEmpty ==
    /\ digest.calls < MaxDigestCalls
    /\ config.digest_enabled
    /\ get_pending_digest_emails(dbEmails) = {}
    /\ digest' = [calls |-> digest.calls + 1, outcome |-> "empty",
                  success |-> NoPendingResult.success,
                  emails_included |-> NoPendingResult.emails_included,
                  selected |-> {}, rendered |-> {}, log |-> NoRow,
                  sends |-> digest.sends, first |-> NoRow]
    /\ UNCHANGED << dbEmails, dbLogs >>
    /\ UNCHANGED digestFrame

\* send_digest with pending records; the transport reports success or not,
\* and the commit goes through
SendDigest(success) ==
    /\ digest.calls < MaxDigestCalls
    /\ config.digest_enabled
    /\ LET emails == get_pending_digest_emails(dbEmails)
           n      == digest.calls + 1
       IN  /\ emails # {}
           /\ \E shown \in RenderedChoices(emails) :
              \E last \in LastChoices(emails, shown) :
              \E first \in FirstChoices(emails, shown, last) :
                LET log == NewDigestLog(n, success, last)
                IN  /\ dbLogs' = dbLogs \cup {log}
                    /\ dbEmails' = EmailsAfterDigest(dbEmails, emails,
                                                     DigestTime(n), success)
                    /\ digest' = [calls |-> n,
                                  outcome |-> IF success THEN "sent" ELSE "failed",
                                  success |-> success,
                                  emails_included |->
                                      IF success THEN Cardinality(emails) ELSE 0,
                                  selected |-> { r.oid : r \in emails },
                                  rendered |-> { r.oid : r \in shown },
                                  log |-> log.lid,
                                  sends |-> digest.sends + 1,
                                  first |-> first.oid]
    /\ UNCHANGED digestFrame

\* send_digest whose commit raises: the endpoint answers 500 and the session
\* is closed with nothing written
SendDigestCommitFails ==
    /\ digest.calls < MaxDigestCalls
    /\ config.digest_enabled
    /\ LET emails == get_pending_digest_emails(dbEmails)
       IN  /\ emails # {}
           /\ \E shown \in RenderedChoices(emails) :
              \E last \in LastChoices(emails, shown) :
              \E first \in FirstChoices(emails, shown, last) :
                digest' = [calls |-> digest.calls + 1, outcome |-> "raised",
                           success |-> FALSE, emails_included |-> 0,
                           selected |-> { r.oid : r \in emails },
                           rendered |-> { r.oid : r \in shown },
                           log |-> NoRow,
                           sends |-> digest.sends + 1,
                           first |-> first.oid]
    /\ UNCHANGED << dbEmails, dbLogs >>
    /\ UNCHANGED digestFrame

NextDigest ==
    \/ DigestEligibleCommitted
    \/ SendDigestDisabled
    \/ SendDigestEmpty
    \/ \E success \in BOOLEAN : SendDigest(success)
    \/ SendDigestCommitFails

SpecDigest == InitDigest /\ [][NextDigest]_vars

----------------------------------------------------------------------------
(* Feedback: POST /feedback/<email_id>, LearnedPattern.record_feedback *)

\* the most feedback requests that are answered
MaxFeedback == 3

\* adjustment of the sender pattern, in thousandths
NotImportantAdjustment == -150

ImportantAdjustment == 100

FeedbackTypes == { "not_important", "important" }

\* the committed records that feedback is given on, and an id without record
FeedbackOids == { << 2, 1, 1 >>, << 2, 2, 1 >> }

MissingOid == << 2, 9, 1 >>

FeedbackRecords ==
    { NewProcessedEmail(oid, oid[1], oid[2],
                        is_whitelisted(SenderOf(oid[1], oid[2])), HighPriorityScore)
        : oid \in FeedbackOids }

\* what a Numeric(3,2) column holds, in hundredths, for num/den thousandths:
\* the nearest hundredth, and either neighbour when the value is half way
Numeric32(num, den) ==
    LET d == 10 * den
        q == num \div d
        r == num % d
    IN  IF 2 * r < d THEN {q}
        ELSE IF 2 * r > d THEN {q + 1}
        ELSE {q, q + 1}

\* weight = min(0.5, 1 / feedback_count) is 1 / WeightDen(feedback_count)
WeightDen(feedback_count) == Max(2, feedback_count)

\* record_feedback on the rows pats that the session's query sees: the
\* pattern object it returns, its score_adjustment being num/den thousandths
\* (a float, until the commit stores it in the column)
record_feedback(pats, pattern_type, pattern_value, adjustment) ==
    LET pattern_value_lower == Strip(Lower(pattern_value))
        existing == get_adjustment(pats, pattern_type, pattern_value_lower)
    IN  IF existing # {}
        THEN LET e     == CHOOSE x \in existing : TRUE
                 count == e.feedback_count + 1
                 den   == WeightDen(count)
             IN  [pattern_type   |-> pattern_type,
                  pattern_value  |-> pattern_value_lower,
                  is_new         |-> FALSE,
                  feedback_count |-> count,
                  num            |-> e.score_adjustment * 10 * (den - 1) + adjustment,
                  den            |-> den,
                  adjustment     |-> adjustment]
        ELSE [pattern_type   |-> pattern_type,
              pattern_value  |-> pattern_value_lower,
              is_new         |-> TRUE,
              feedback_count |-> 1,
              num            |-> adjustment,
              den            |-> 1,
              adjustment     |-> adjustment]

\* the row of a pattern object once stored, its adjustment being h hundredths
PatternRow(w, h) ==
    [pattern_type     |-> w.pattern_type,
     pattern_value    |-> w.pattern_value,
     score_adjustment |-> h,
     feedback_count   |-> w.feedback_count]

SameKey(p, w) ==
    p.pattern_type = w.pattern_type /\ p.pattern_value = w.pattern_value

NewUserFeedback(n, oid, feedback_type, rows) ==
    LET email == CHOOSE r \in rows : r.oid = oid
    IN  [fid             |-> n,
         processed_email |-> oid,
         feedback_type   |-> feedback_type,
         original_score  |-> email.importance_score]

\* a failure after which the row added to the session stays in the table
FlushedStays(committed, pending) == committed \cup pending

\* g.db.rollback() in the except branch
RollbackFeedback(committed, pending) == committed

\* what a feedback request leaves alone
feedbackFrame ==
    << arrived, active, config, dbEmails, dbLogs, dbAccounts, sEmails, sLogs,
       sAccounts, pc, entry, runs, queue, batch, idx, result, outcomes, summary,
       lastCommit, dbAtStart, alerts, routed, analysis, digest >>

InitFeedback ==
    /\ arrived = [a \in Accounts |-> 0]
    /\ active = {}
    /\ config = DefaultConfig
    /\ patterns = {}
    /\ dbEmails = FeedbackRecords
    /\ dbLogs = {}
    /\ dbAccounts = [a \in Accounts |-> NewAccount]
    /\ sEmails = {}
    /\ sLogs = {}
    /\ sAccounts = [a \in Accounts |-> NewAccount]
    /\ pc = "idle"
    /\ entry = "none"
    /\ runs = 0
    /\ queue = << >>
    /\ batch = << >>
    /\ idx = 1
    /\ result = EmptyResult(0)
    /\ outcomes = << >>
    /\ summary = EmptySummary
    /\ lastCommit = "none"
    /\ dbAtStart = EmptySnapshot
    /\ alerts = [k \in Keys |-> [attempts |-> 0, sent |-> 0]]
    /\ routed = NoRouting
    /\ analysis = NoAnalysis
    /\ digest = NoDigest
    /\ feedback = {}
    /\ req = [q \in Requests |-> NoRequest]

RECURSIVE SumServed(_)
SumServed(qs) ==
    IF qs = {} THEN 0
    ELSE LET q == CHOOSE x \in qs : TRUE
         IN  req[q].served + SumServed(qs \ {q})

\* the number of requests received so far
FeedbackSeen == SumServed(Requests)

\* a request with an invalid type (400) or for an id without record (404)
FeedbackRejected(q) ==
    /\ req[q].pc = "idle"
    /\ FeedbackSeen < MaxFeedback
    /\ \E status \in { 400, 404 } :
          req' = [req EXCEPT ![q] =
                     [pc |-> "idle",
                      email |-> IF status = 404 THEN MissingOid ELSE << >>,
                      feedback_type |-> IF status = 400 THEN "bogus" ELSE "important",
                      pending |-> {}, status |-> status,
                      served |-> req[q].served + 1]]
    /\ UNCHANGED << patterns, feedback >>
    /\ UNCHANGED feedbackFrame

\* the request is accepted: the record is loaded and a UserFeedback row is
\* added to the session
FeedbackStart(q, oid, feedback_type) ==
    /\ req[q].pc = "idle"
    /\ FeedbackSeen < MaxFeedback
    /\ \E r \in dbEmails : r.oid = oid
    /\ req' = [req EXCEPT ![q] =
                  [pc |-> "sender", email |-> oid, feedback_type |-> feedback_type,
                   pending |-> {}, status |-> 0,
                   served |-> req[q].served + 1]]
    /\ UNCHANGED << patterns, feedback >>
    /\ UNCHANGED feedbackFrame

FeedbackEmail(q) == CHOOSE r \in dbEmails : r.oid = req[q].email

FeedbackAdjustment(q) ==
    IF req[q].feedback_type = "not_important"
    THEN NotImportantAdjustment ELSE ImportantAdjustment

\* record_feedback(g.db, "sender", email.sender_email, adjustment)
RecordSender(q) ==
    /\ req[q].pc = "sender"
    /\ LET email == FeedbackEmail(q)
           w     == record_feedback(patterns, "sender", email.sender_email,
                                    FeedbackAdjustment(q))
       IN  req' = [req EXCEPT ![q].pending = {w},
                              ![q].pc = IF HasAt(email.sender_email)
                                        THEN "domain" ELSE "commit"]
    /\ UNCHANGED << patterns, feedback >>
    /\ UNCHANGED feedbackFrame

\* record_feedback(g.db, "domain", domain, adjustment * 0.5)
RecordDomain(q) ==
    /\ req[q].pc = "domain"
    /\ LET email  == FeedbackEmail(q)
           domain == DomainOf(email.sender_email)
           w      == record_feedback(patterns, "domain", domain,
                                     FeedbackAdjustment(q) \div 2)
       IN  req' = [req EXCEPT ![q].pending = @ \cup {w}, ![q].pc = "commit"]
    /\ UNCHANGED << patterns, feedback >>
    /\ UNCHANGED feedbackFrame

\* an INSERT of the session meets a row that another request has committed
\* since the session looked for it
InsertConflict(q) ==
    \E w \in req[q].pending :
        w.is_new /\ \E p \in patterns : SameKey(p, w)

\* the rows of learned_patterns after the session's objects are written:
\* each takes the place of the row with its key, with any value the column
\* can hold for its adjustment
PatternsWritten(pats, pending) ==
    LET kept == { p \in pats : \A w \in pending : ~SameKey(p, w) }
        Stored(w, up) ==
            LET hs == Numeric32(w.num, w.den)
            IN  IF up THEN CHOOSE h \in hs : \A k \in hs : k <= h
                ELSE CHOOSE h \in hs : \A k \in hs : k >= h
    IN  { kept \cup { PatternRow(w, Stored(w, w \in up)) : w \in pending }
            : up \in SUBSET pending }

\* g.db.commit(): the UserFeedback row and both patterns in one transaction
FeedbackCommit(q) ==
    /\ req[q].pc = "commit"
    /\ ~InsertConflict(q)
    /\ patterns' \in PatternsWritten(patterns, req[q].pending)
    /\ feedback' = feedback \cup
           { NewUserFeedback(Cardinality(feedback) + 1, req[q].email,
                             req[q].feedback_type, dbEmails) }
    /\ req' = [req EXCEPT ![q].pc = "idle", ![q].status = 200]
    /\ UNCHANGED feedbackFrame

\* a step of the try block raises (a query, the flush of an INSERT that
\* violates uq_pattern_type_value, the commit): rollback, 500
FeedbackFails(q) ==
    /\ req[q].pc \in { "sender", "domain", "commit" }
    /\ feedback' = RollbackFeedback(feedback,
           { NewUserFeedback(Cardinality(feedback) + 1, req[q].email,
                             req[q].feedback_type, dbEmails) })
    /\ req' = [req EXCEPT ![q].pc = "idle", ![q].status = 500]
    /\ UNCHANGED patterns
    /\ UNCHANGED feedbackFrame

NextFeedback ==
    \E q \in Requests :
        \/ FeedbackRejected(q)
        \/ \E oid \in FeedbackOids : \E t \in FeedbackTypes : FeedbackStart(q, oid, t)
        \/ RecordSender(q)
        \/ RecordDomain(q)
        \/ FeedbackCommit(q)
        \/ FeedbackFails(q)

SpecFeedback == InitFeedback /\ [][NextFeedback]_vars

----------------------------------------------------------------------------
(* ClaudeAnalyzer.analyze_email as each entrypoint builds it, and the record *)

\* the scores the oracle is tried with, in thousandths
AnalyzerScores == { -200, 0, 300, 496, 500, 600, 690, 696, 700, 850, 900, 1200 }

\* Besides the replies of OracleReplies: JSON that is not an object (a list,
\* a number), and an object whose score is no number ("high", null).
AnalyzerReplies ==
    { OracleReply(kind, 0)
        : kind \in { "api_error", "malformed", "no_score", "not_object", "bad_score" } }
    \cup { OracleReply("score", score) : score \in AnalyzerScores }

\* The replies on which analyze_email raises: anthropic.APIError is raised
\* again, result.get on a value that is no dict raises AttributeError and
\* float() of a value that is no number raises ValueError or TypeError, all
\* re-raised by the last except clause; only json.JSONDecodeError is
\* answered with the fallback.
AnalyzerRaises(reply) == reply.kind \in { "api_error", "not_object", "bad_score" }

\* whether the entrypoint gives the analyzer a database session
HasSession(ent) == ent = "check_now"

\* the senders whose messages reach the analyzer
AnalyzedSenders == { SenderOf(2, 1), SenderOf(2, 2) }

\* committed states of learned_patterns
AnalyzerPatterns ==
    PatternChoices
    \cup { { [pattern_type |-> "sender", pattern_value |-> << "e", "@", "z" >>,
              score_adjustment |-> 10, feedback_count |-> 1],
            [pattern_type |-> "domain", pattern_value |-> << "z" >>,
              score_adjustment |-> 5, feedback_count |-> 1] },
          { [pattern_type |-> "sender", pattern_value |-> << "d", "@", "x" >>,
              score_adjustment |-> -15, feedback_count |-> 2],
            [pattern_type |-> "domain", pattern_value |-> << "x" >>,
              score_adjustment |-> -7, feedback_count |-> 2] } }

InitAnalyzer ==
    /\ arrived = [a \in Accounts |-> 0]
    /\ active = {}
    /\ config = DefaultConfig
    /\ patterns \in AnalyzerPatterns
    /\ dbEmails = {}
    /\ dbLogs = {}
    /\ dbAccounts = [a \in Accounts |-> NewAccount]
    /\ sEmails = {}
    /\ sLogs = {}
    /\ sAccounts = [a \in Accounts |-> NewAccount]
    /\ pc = "idle"
    /\ entry \in Entrypoints
    /\ runs = 0
    /\ queue = << >>
    /\ batch = << >>
    /\ idx = 1
    /\ result = EmptyResult(0)
    /\ outcomes = << >>
    /\ summary = EmptySummary
    /\ lastCommit = "none"
    /\ dbAtStart = EmptySnapshot
    /\ alerts = [k \in Keys |-> [attempts |-> 0, sent |-> 0]]
    /\ routed = NoRouting
    /\ \E reply \in AnalyzerReplies : \E sender \in AnalyzedSenders :
          analysis = [reply |-> reply, whitelisted |-> is_whitelisted(sender),
                      entry |-> entry, pats |-> patterns, sender |-> sender,
                      outcome |-> "none", score |-> 0]
    /\ digest = NoDigest
    /\ feedback = {}
    /\ req = [q \in Requests |-> NoRequest]

\* analyze_email is called and returns or raises
Analyze ==
    /\ analysis.outcome = "none"
    /\ analysis' =
          IF AnalyzerRaises(analysis.reply)
          THEN [analysis EXCEPT !.outcome = "raised"]
          ELSE [analysis EXCEPT
                   !.outcome = "returned",
                   !.score = analyze_email(analysis.reply, analysis.whitelisted,
                                           HasSession(analysis.entry),
                                           analysis.pats, analysis.sender)]
    /\ UNCHANGED << arrived, active, config, patterns, dbEmails, dbLogs,
                    dbAccounts, sEmails, sLogs, sAccounts, pc, entry, runs,
                    queue, batch, idx, result, outcomes, summary, lastCommit,
                    dbAtStart, alerts, routed, digest, feedback, req >>

\* the score returned goes through the if / elif of _process_single_email
RouteAnalyzed ==
    /\ analysis.outcome = "returned"
    /\ routed.route = "none"
    /\ LET params == ProcessorParams(entry, config)
       IN  routed' = [score  |-> analysis.score,
                      params |-> params,
                      route  |-> Route(analysis.score, params)]
    /\ UNCHANGED << arrived, active, config, patterns, dbEmails, dbLogs,
                    dbAccounts, sEmails, sLogs, sAccounts, pc, entry, runs,
                    queue, batch, idx, result, outcomes, summary, lastCommit,
                    dbAtStart, alerts, analysis, digest, feedback, req >>

\* the message of the analyzed sender, in the mailbox of account 2
AnalyzedMessage == IF analysis.sender = SenderOf(2, 1) THEN 1 ELSE 2

\* the record of the analyzed message is built with the rounded score, the
\* branch that the routing took is run, and the record is added to the session
RecordAnalyzed ==
    /\ routed.route # "none"
    /\ sEmails = {}
    /\ LET oid   == << 2, AnalyzedMessage, 1 >>
           fresh == NewProcessedEmail(oid, 2, AnalyzedMessage,
                                      analysis.whitelisted, analysis.score)
       IN  \E success \in (IF routed.route = "notify" THEN BOOLEAN ELSE {FALSE}) :
             /\ sEmails' =
                    { IF routed.route = "notify"
                      THEN IF success
                           THEN [fresh EXCEPT !.notification_sent = TRUE,
                                              !.notification_sent_at = Now]
                           ELSE fresh
                      ELSE IF routed.route = "digest"
                           THEN [fresh EXCEPT !.digest_eligible = TRUE]
                           ELSE fresh }
             /\ sLogs' = IF routed.route = "notify"
                         THEN {NewNotificationLog(oid, analysis.score, success)}
                         ELSE {}
    /\ UNCHANGED << arrived, active, config, patterns, dbEmails, dbLogs,
                    dbAccounts, sAccounts, pc, entry, runs, queue, batch, idx,
                    result, outcomes, summary, lastCommit, dbAtStart, alerts,
                    routed, analysis, digest, feedback, req >>

NextAnalyzer == Analyze \/ RouteAnalyzed \/ RecordAnalyzed

SpecAnalyzer == InitAnalyzer /\ [][NextAnalyzer]_vars

----------------------------------------------------------------------------
(* Triage runs and digest requests together *)

\* POST /send-digest is served by its own request and session.  It reads
\* and writes committed rows only, and a triage run reads them for the
\* existence check and writes them at its commit only, so a request served
\* during a run acts as one served before the run or after it: here it is
\* served between two runs.
DigestRequest ==
    /\ pc = "idle"
    /\ \/ SendDigestEmpty
       \/ \E success \in BOOLEAN : SendDigest(success)
       \/ SendDigestCommitFails

\* both accounts active, the default configuration (the digest is enabled),
\* no learned pattern
InitTriageDigest ==
    /\ Init
    /\ active = Accounts
    /\ config = DefaultConfig
    /\ patterns = {}

NextTriageDigest ==
    \/ \E a \in Accounts : Arrive(a)
    \/ \E ent \in Entrypoints : StartRun(ent)
    \/ ProcessAccountRaises
    \/ FetchFails
    \/ \E expired \in BOOLEAN : FetchReturns(expired)
    \/ SkipAlreadyProcessed
    \/ SkipBlacklisted
    \/ AnalyzeRaises
    \/ ProcessSingleEmail
    \/ FinishAccount
    \/ CommitSucceeds
    \/ CommitFails
    \/ Respond
    \/ DigestRequest

SpecTriageDigest == InitTriageDigest /\ [][NextTriageDigest]_vars

----------------------------------------------------------------------------
(* Two triage runs that overlap: the scheduled script and POST /check-now *)

\* The two runs are two processes, each with its own session; nothing in
\* process_all_accounts takes a lock.  Run 1 is the script, run 2 the
\* request.  req[w] holds the session and the position of run w.
RunEntry(w) == IF w = 1 THEN "script" ELSE "check_now"

\* the one active account of the overlapping runs
ConcurrentAccount == 2

NoRun ==
    [pc |-> "idle", batch |-> << >>, idx |-> 1, sEmails |-> {}, sLogs |-> {},
     account |-> NewAccount, analyzed |-> {}, status |-> "none"]

\* the account row after an earlier check of the empty mailbox
CheckedAccount == [last_history_id |-> 1, last_check |-> Now]

\* the rows a query of the session of run w sees (READ COMMITTED: the rows
\* committed by now, and its own pending objects only after a flush)
VisibleTo(w) == IF Autoflush THEN dbEmails \cup req[w].sEmails ELSE dbEmails

already_processed_by(w, account_id, message_id) ==
    \E r \in VisibleTo(w) :
        r.gmail_account_id = account_id /\ r.message_id = message_id

concurrentFrame ==
    << active, config, patterns, sEmails, sLogs, sAccounts, pc, entry, runs,
       queue, batch, idx, result, outcomes, summary, lastCommit, dbAtStart,
       routed, analysis, digest, feedback >>

InitConcurrent ==
    /\ arrived = [a \in Accounts |-> 0]
    /\ active = {ConcurrentAccount}
    /\ config = DefaultConfig
    /\ patterns = {}
    /\ dbEmails = {}
    /\ dbLogs = {}
    /\ dbAccounts \in { [a \in Accounts |-> NewAccount],
                        [a \in Accounts |-> IF a = ConcurrentAccount
                                            THEN CheckedAccount ELSE NewAccount] }
    /\ sEmails = {}
    /\ sLogs = {}
    /\ sAccounts = [a \in Accounts |-> NewAccount]
    /\ pc = "idle"
    /\ entry = "none"
    /\ runs = 0
    /\ queue = << >>
    /\ batch = << >>
    /\ idx = 1
    /\ result = EmptyResult(0)
    /\ outcomes = << >>
    /\ summary = EmptySummary
    /\ lastCommit = "none"
    /\ dbAtStart = EmptySnapshot
    /\ alerts = [k \in Keys |-> [attempts |-> 0, sent |-> 0]]
    /\ routed = NoRouting
    /\ analysis = NoAnalysis
    /\ digest = NoDigest
    /\ feedback = {}
    /\ req = [w \in Requests |-> NoRun]

\* a message arrives in the mailbox
ArriveConcurrent ==
    /\ arrived[ConcurrentAccount] < Cardinality(MsgIds(ConcurrentAccount))
    /\ arrived' = [arrived EXCEPT ![ConcurrentAccount] = @ + 1]
    /\ UNCHANGED << dbEmails, dbLogs, dbAccounts, alerts, req >>
    /\ UNCHANGED concurrentFrame

\* process_all_accounts of run w queries the active accounts
RunStarts(w) ==
    /\ req[w].pc = "idle"
    /\ req[w].status = "none"
    /\ req' = [req EXCEPT ![w] = [NoRun EXCEPT
                  !.pc = "account", !.account = dbAccounts[ConcurrentAccount]]]
    /\ UNCHANGED << arrived, dbEmails, dbLogs, dbAccounts, alerts >>
    /\ UNCHANGED concurrentFrame

\* fetch_new_emails raises: the run goes on to its commit
RunFetchFails(w) ==
    /\ req[w].pc = "account"
    /\ req' = [req EXCEPT ![w].pc = "commit"]
    /\ UNCHANGED << arrived, dbEmails, dbLogs, dbAccounts, alerts >>
    /\ UNCHANGED concurrentFrame

\* fetch_new_emails returns along the checkpoint that the run read
RunFetches(w, expired) ==
    /\ req[w].pc = "account"
    /\ \E emails \in fetch_new_emails(ConcurrentAccount,
                                      req[w].account.last_history_id, expired) :
          req' = [req EXCEPT
                     ![w].batch = emails,
                     ![w].idx = 1,
                     ![w].account = [last_history_id |-> HistoryId(ConcurrentAccount),
                                     last_check |-> Now],
                     ![w].pc = "loop"]
    /\ UNCHANGED << arrived, dbEmails, dbLogs, dbAccounts, alerts >>
    /\ UNCHANGED concurrentFrame

RunInLoop(w) == req[w].pc = "loop" /\ req[w].idx <= Len(req[w].batch)

RunEmail(w) == req[w].batch[req[w].idx]

\* the message has a committed record, or its sender is blacklisted
RunSkips(w) ==
    /\ RunInLoop(w)
    /\ \/ already_processed_by(w, ConcurrentAccount, RunEmail(w))
       \/ is_blacklisted(SenderOf(ConcurrentAccount, RunEmail(w)))
    /\ req' = [req EXCEPT ![w].idx = @ + 1]
    /\ UNCHANGED << arrived, dbEmails, dbLogs, dbAccounts, alerts >>
    /\ UNCHANGED concurrentFrame

\* analyze_email raises: the except branch of the loop
RunAnalyzeRaises(w) ==
    /\ RunInLoop(w)
    /\ ~already_processed_by(w, ConcurrentAccount, RunEmail(w))
    /\ ~is_blacklisted(SenderOf(ConcurrentAccount, RunEmail(w)))
    /\ req' = [req EXCEPT ![w].idx = @ + 1,
                          ![w].analyzed = @ \cup {RunEmail(w)}]
    /\ UNCHANGED << arrived, dbEmails, dbLogs, dbAccounts, alerts >>
    /\ UNCHANGED concurrentFrame

\* _process_single_email of run w: classify, route, dispatch, add the record
\* to the session of the run
RunProcesses(w) ==
    /\ RunInLoop(w)
    /\ ~already_processed_by(w, ConcurrentAccount, RunEmail(w))
    /\ ~is_blacklisted(SenderOf(ConcurrentAccount, RunEmail(w)))
    /\ \E reply \in OracleReplies(ConcurrentAccount, RunEmail(w)) :
        /\ reply.kind # "api_error"
        /\ LET m           == RunEmail(w)
               sender      == SenderOf(ConcurrentAccount, m)
               whitelisted == is_whitelisted(sender)
               score       == analyze_email(reply, whitelisted,
                                            HasSession(RunEntry(w)),
                                            patterns, sender)
               route       == Route(score, ProcessorParams(RunEntry(w), config))
               oid         == << ConcurrentAccount, m,
                                 10 * w + 1 + Cardinality({ r \in req[w].sEmails :
                                                  r.message_id = m }) >>
               fresh       == NewProcessedEmail(oid, ConcurrentAccount, m,
                                                whitelisted, score)
           IN  \E success \in (IF route = "notify" THEN BOOLEAN ELSE {FALSE}) :
                 LET processed ==
                        IF route = "notify"
                        THEN IF success
                             THEN [fresh EXCEPT !.notification_sent = TRUE,
                                                !.notification_sent_at = Now]
                             ELSE fresh
                        ELSE IF route = "digest"
                             THEN [fresh EXCEPT !.digest_eligible = TRUE]
                             ELSE fresh
                 IN  /\ req' = [req EXCEPT
                            ![w].idx = @ + 1,
                            ![w].analyzed = @ \cup {m},
                            ![w].sEmails = @ \cup {processed},
                            ![w].sLogs = IF route = "notify"
                                         THEN @ \cup {NewNotificationLog(oid, score, success)}
                                         ELSE @]
                     /\ alerts' =
                            IF route = "notify"
                            THEN [alerts EXCEPT ![<< ConcurrentAccount, m >>] =
                                     [attempts |-> Min(AlertCap, @.attempts + 1),
                                      sent |-> Min(AlertCap,
                                          @.sent + (IF success THEN 1 ELSE 0))]]
                            ELSE alerts
    /\ UNCHANGED << arrived, dbEmails, dbLogs, dbAccounts >>
    /\ UNCHANGED concurrentFrame

\* the loop of the one account is over
RunLeavesLoop(w) ==
    /\ req[w].pc = "loop"
    /\ req[w].idx > Len(req[w].batch)
    /\ req' = [req EXCEPT ![w].pc = "commit"]
    /\ UNCHANGED << arrived, dbEmails, dbLogs, dbAccounts, alerts >>
    /\ UNCHANGED concurrentFrame

\* self.db.commit() of run w goes through
RunCommits(w) ==
    /\ req[w].pc = "commit"
    /\ UniqueConstraintHolds(dbEmails \cup req[w].sEmails)
    /\ dbEmails' = dbEmails \cup req[w].sEmails
    /\ dbLogs' = dbLogs \cup req[w].sLogs
    /\ dbAccounts' = [dbAccounts EXCEPT ![ConcurrentAccount] = req[w].account]
    /\ req' = [req EXCEPT ![w].pc = "done", ![w].status = "ok",
                          ![w].sEmails = {}, ![w].sLogs = {}]
    /\ UNCHANGED << arrived, alerts >>
    /\ UNCHANGED concurrentFrame

\* self.db.commit() of run w raises, on uq_processed_account_message or
\* because the database is away: everything the run did is rolled back
RunCommitFails(w) ==
    /\ req[w].pc = "commit"
    /\ req' = [req EXCEPT
                  ![w].pc = "done",
                  ![w].status = IF UniqueConstraintHolds(dbEmails \cup req[w].sEmails)
                                THEN "db_error" ELSE "unique",
                  ![w].sEmails = {}, ![w].sLogs = {}]
    /\ dbEmails' = RollbackRows(dbEmails, req[w].sEmails)
    /\ dbLogs' = RollbackRows(dbLogs, req[w].sLogs)
    /\ UNCHANGED << arrived, dbAccounts, alerts >>
    /\ UNCHANGED concurrentFrame

NextConcurrent ==
    \/ ArriveConcurrent
    \/ \E w \in Requests : RunStarts(w)
    \/ \E w \in Requests : RunFetchFails(w)
    \/ \E w \in Requests : \E expired \in BOOLEAN : RunFetches(w, expired)
    \/ \E w \in Requests : RunSkips(w)
    \/ \E w \in Requests : RunAnalyzeRaises(w)
    \/ \E w \in Requests : RunProcesses(w)
    \/ \E w \in Requests : RunLeavesLoop(w)
    \/ \E w \in Requests : RunCommits(w)
    \/ \E w \in Requests : RunCommitFails(w)

SpecConcurrent == InitConcurrent /\ [][NextConcurrent]_vars

----------------------------------------------------------------------------
(* Properties *)

AllEmails == dbEmails \cup sEmails

AllLogs == dbLogs \cup sLogs

RecordsOf(rows, k) ==
    { r \in rows : r.gmail_account_id = k[1] /\ r.message_id = k[2] }

LogsOf(logs, r) == { l \in logs : l.processed_email = r.oid }

\* the positions of the current batch handled so far
Handled == IF pc = "loop" THEN DOMAIN outcomes ELSE {}

\* C1: however the fetched ids repeat, within one run or across runs, an
\* (account, message id) has at most one ProcessedRecord, committed or
\* pending, and a later occurrence of an id already processed in the same
\* batch or already committed is skipped without a classifier or dispatch
\* call.
C1_Dedup ==
    /\ \A k \in Keys : Cardinality(RecordsOf(AllEmails, k)) <= 1
    /\ \A i, j \in Handled :
           (i < j /\ batch[i] = batch[j] /\ outcomes[i] = "processed")
               => outcomes[j] = "skipped"
    /\ \A j \in Handled :
           RecordsOf(dbEmails, << Cur, batch[j] >>) # {}
               => outcomes[j] = "skipped"

\* the keys of the messages whose sender is denied: c@Y by its domain, and
\* B@X by its address although its domain is allow-listed
DeniedKeys == { << 1, 1 >>, << 1, 2 >> }

\* C2: a message whose sender matches an active deny-list entry, by address
\* or by domain, allow-listed or not, is never classified: it has no
\* ProcessedRecord, no NotificationLog row and no alert, and emails_analyzed
\* counts only the emails that were classified successfully.
C2_DenyPrecedence ==
    /\ \A k \in DeniedKeys :
           /\ RecordsOf(AllEmails, k) = {}
           /\ \A l \in AllLogs : << l.processed_email[1], l.processed_email[2] >> # k
           /\ alerts[k].attempts = 0
    /\ \A i \in Handled :
           << Cur, batch[i] >> \in DeniedKeys => outcomes[i] = "blacklisted"
    /\ pc = "loop" =>
           result.emails_analyzed =
               Cardinality({ i \in Handled : outcomes[i] = "processed" })

\* a denied sender that is allow-listed as well has been passed over
C2_Witness ==
    /\ pc = "loop"
    /\ \E i \in Handled :
           /\ << Cur, batch[i] >> = << 1, 2 >>
           /\ is_whitelisted(SenderOf(1, 2))
           /\ outcomes[i] = "blacklisted"

\* C3: the score analyze_email returned for a record, and the rounded score
\* persisted on it, lie in [0.00, 1.00] whatever the oracle answered,
\* whether or not the sender is allow-listed, and with or without a learned
\* adjustment or a database session.
C3_ScoreRange ==
    \A r \in AllEmails :
        /\ 0 <= r.analysis_score /\ r.analysis_score <= 1000
        /\ 0 <= r.importance_score /\ r.importance_score <= 100

\* the route the specification gives a score: Notify at or above the notify
\* threshold, else Digest inside the enabled band, bounds included, else
\* Ignore
SpecifiedRoute(score, notify, enabled, low, high) ==
    CASE score >= notify -> "notify"
      [] score < notify /\ enabled /\ low <= score /\ score <= high -> "digest"
      [] OTHER -> "ignore"

C5_AtMostOneDispatch ==
    pc \in { "idle", "returned" } =>
        \A k \in Keys :
            /\ alerts[k].attempts <= 1
            /\ alerts[k].attempts =
                   Cardinality({ l \in dbLogs :
                       << l.processed_email[1], l.processed_email[2] >> = k })

\* a message that was alerted in an earlier, committed run is fetched again
\* and skipped
C5_Witness ==
    /\ pc = "loop"
    /\ \E i \in Handled :
           /\ outcomes[i] = "skipped"
           /\ alerts[<< Cur, batch[i] >>].attempts = 1
           /\ RecordsOf(dbEmails, << Cur, batch[i] >>) # {}

\* the loop has just recorded a failure for the email at idx
EmailFailed ==
    /\ pc = "loop"
    /\ pc' = "loop"
    /\ batch' = batch
    /\ Len(outcomes') = Len(outcomes) + 1
    /\ outcomes'[Len(outcomes')] = "error"

FetchError == << "Failed to fetch emails", "exc" >>

\* C7: when the loop over the accounts is over, every active account has a
\* result in the summary, in the order the accounts were taken; an account
\* whose fetch failed has the error in its result and, under its name, in
\* the summary's errors, and process_all_accounts goes on to the commit and
\* returns.
C7_AccountFailureIsolation ==
    (pc \in { "commit", "returned" } /\ lastCommit # "noaccounts") =>
        /\ Len(summary.account_results) = Cardinality(active)
        /\ \A i \in DOMAIN summary.account_results :
               LET res == summary.account_results[i]
               IN  /\ res.account_email = AccountList(active)[i]
                   /\ \A j \in DOMAIN res.errors :
                          res.errors[j] = FetchError =>
                              /\ res.emails_fetched = 0
                              /\ res.emails_analyzed = 0
                              /\ \E n \in DOMAIN summary.errors :
                                     summary.errors[n] =
                                         << res.account_email, FetchError >>

\* the fetch of the first account failed and an email of the second account
\* was analyzed in the same run, which has returned
C7_Witness ==
    /\ pc = "returned"
    /\ Len(summary.account_results) = 2
    /\ summary.account_results[1].errors = << FetchError >>
    /\ summary.account_results[2].emails_analyzed >= 1
    /\ summary.accounts_processed = 2

CommitError == << "Database commit failed", "exc" >>

\* C8: nothing of a run is persisted before its one commit, which comes
\* after the last account; when the commit fails the committed records,
\* logs and checkpoints are those from before the run, the pending objects
\* are gone, the summary ends with the commit-failure error, and the alerts
\* handed to Pushover stay as they are.
C8_CommitFailure ==
    [][ /\ pc \in { "account", "loop", "commit" } => Snapshot = dbAtStart
        /\ (pc = "commit" /\ pc' # "commit") => queue = << >>
        /\ (pc = "commit" /\ lastCommit' = "failed") =>
               /\ dbEmails' = dbAtStart.emails
               /\ dbLogs' = dbAtStart.logs
               /\ dbAccounts' = dbAtStart.accounts
               /\ sEmails' = {}
               /\ sLogs' = {}
               /\ sAccounts' = dbAccounts'
               /\ summary'.errors = Append(summary.errors, CommitError)
               /\ alerts' = alerts
        /\ \A k \in Keys :
               /\ alerts'[k].attempts >= alerts[k].attempts
               /\ alerts'[k].sent >= alerts[k].sent
      ]_vars

\* a run whose commit failed has returned: an alert was sent for a message
\* that has no committed record, and the checkpoint of its account is the
\* one from before the run
C8_Witness ==
    /\ pc = "returned"
    /\ lastCommit = "failed"
    /\ summary.errors # << >>
    /\ summary.errors[Len(summary.errors)] = CommitError
    /\ \E k \in Keys :
           /\ alerts[k].sent = 1
           /\ RecordsOf(dbEmails, k) = {}
           /\ dbAccounts[k[1]].last_history_id = NoHistoryId

\* C9: after a run that committed, every message whose classification
\* failed in it can still be returned by the next fetch of its account
\* along the stored checkpoint (or has been processed in the same run).
C9_FailedMessageRetried ==
    (pc = "returned" /\ lastCommit = "ok") =>
        \A i \in DOMAIN summary.account_results :
            LET res == summary.account_results[i]
                a   == res.account_email
            IN  \A j \in DOMAIN res.errors :
                    res.errors[j][1] = "Failed to process email" =>
                        \/ RecordsOf(dbEmails, << a, res.errors[j][2] >>) # {}
                        \/ \E q \in fetch_new_emails(
                                        a, dbAccounts[a].last_history_id, FALSE) :
                               \E n \in DOMAIN q : q[n] = res.errors[j][2]

\* both entrypoints hand the configured importance threshold to the processor
NotifyRouted(r) == r.analysis_score >= config.importance_threshold

\* C10: a record routed to Notify has exactly one NotificationLog row, a
\* pushover row linked to it, whose status is 'sent' if the transport
\* reported success and 'failed' if not; notification_sent and
\* notification_sent_at are set exactly when it reported success.  Any other
\* record has no row.
C10_DispatchOutcome ==
    [][ /\ \A r \in AllEmails :
               LET logs == LogsOf(AllLogs, r)
               IN  /\ r.notification_sent <=> r.notification_sent_at # None
                   /\ IF NotifyRouted(r)
                      THEN /\ Cardinality(logs) = 1
                           /\ \A l \in logs :
                                  /\ l.notification_type = "pushover"
                                  /\ l.status \in { "sent", "failed" }
                                  /\ l.status = "sent" <=> r.notification_sent
                                  /\ (r \in sEmails) <=> (l \in sLogs)
                      ELSE logs = {} /\ ~r.notification_sent
        /\ \A l \in AllLogs : \E r \in AllEmails : r.oid = l.processed_email
        /\ \A k \in Keys :
               (alerts[k].attempts < AlertCap /\ alerts'[k] # alerts[k]) =>
                   /\ alerts'[k].attempts = alerts[k].attempts + 1
                   /\ \E l \in sLogs' \ sLogs :
                          /\ << l.processed_email[1], l.processed_email[2] >> = k
                          /\ l.status = "sent" <=>
                                 alerts'[k].sent = alerts[k].sent + 1
        /\ \A l \in sLogs' \ sLogs :
               alerts'[<< l.processed_email[1], l.processed_email[2] >>]
                   # alerts[<< l.processed_email[1], l.processed_email[2] >>]
               \/ alerts[<< l.processed_email[1], l.processed_email[2] >>].attempts
                      = AlertCap
      ]_vars

\* an alert that Pushover refused has its 'failed' row, and the record is
\* not marked as notified; another record was notified
C10_Witness ==
    /\ \E r \in AllEmails :
           /\ NotifyRouted(r)
           /\ ~r.notification_sent
           /\ \E l \in LogsOf(AllLogs, r) : l.status = "failed"
    /\ \E r \in AllEmails :
           /\ NotifyRouted(r)
           /\ r.notification_sent
           /\ \E l \in LogsOf(AllLogs, r) : l.status = "sent"

\* the records that the last call of send_digest selected
DigestSelected == { r \in dbEmails : r.oid \in digest.selected }

\* the NotificationLog rows written by the last call of send_digest
DigestLogs == { l \in dbLogs : l.lid = digest.log }

\* C11: after send_digest whose transport send succeeded, every record that
\* was selected (eligible and not yet sent, rendered or not) is marked
\* digest_sent with the one timestamp of that call, every such record is
\* linked to the single NotificationLog row of the digest, and
\* emails_included is the number of selected records.
C11_DigestSuccessMarking ==
    digest.outcome = "sent" =>
        /\ \A r \in DigestSelected :
              r.digest_sent /\ r.digest_sent_at = DigestTime(digest.calls)
        /\ Cardinality(DigestLogs) = 1
        /\ \A r \in DigestSelected : LogsOf(DigestLogs, r) = DigestLogs
        /\ digest.emails_included = Cardinality(digest.selected)
        /\ Cardinality(DigestSelected) = Cardinality(digest.selected)

\* the same without the link of each record to the row: this part holds
DigestMarkedAndCounted ==
    digest.outcome = "sent" =>
        /\ \A r \in DigestSelected :
              r.digest_sent /\ r.digest_sent_at = DigestTime(digest.calls)
        /\ Cardinality(DigestLogs) = 1
        /\ \E r \in DigestSelected : LogsOf(DigestLogs, r) = DigestLogs
        /\ digest.emails_included = Cardinality(digest.selected)
        /\ Cardinality(DigestSelected) = Cardinality(digest.selected)

\* the selected records that the last digest did not render
DigestOverflow == { r \in DigestSelected : r.oid \notin digest.rendered }

\* C12 as stated: after a successful digest of more than 10 eligible
\* records, the records beyond the 10 rendered are still pending
\* (digest_sent is false), so the next cycle selects them again.
C12_OverflowRemainsPending ==
    (digest.outcome = "sent" /\ Cardinality(digest.selected) > DigestRenderCap) =>
        \A r \in DigestOverflow :
            ~r.digest_sent /\ r \in get_pending_digest_emails(dbEmails)

\* C12 as amended: a successful digest of more than 10 eligible records
\* renders 10 of them and marks every selected record digest_sent, the
\* overflow included, and no call of send_digest selects a record that is
\* already marked: the overflow is not selected again by the next cycle.
C12_OverflowMarkedSent ==
    [][digest'.calls = digest.calls + 1 =>
          /\ \A r \in dbEmails : r.digest_sent => r.oid \notin digest'.selected
          /\ digest'.outcome = "sent" =>
                /\ Cardinality(digest'.rendered) =
                      Min(DigestRenderCap, Cardinality(digest'.selected))
                /\ digest'.rendered \subseteq digest'.selected
                /\ \A r \in dbEmails' :
                      r.oid \in digest'.selected =>
                          r.digest_sent /\ r \notin get_pending_digest_emails(dbEmails')
    ]_vars

\* a second cycle, after a digest with overflow and one more eligible
\* record: it selects the new record and none of the overflow
C12_Witness ==
    /\ digest.calls = 2
    /\ digest.outcome = "sent"
    /\ Cardinality(digest.selected) = 1
    /\ Cardinality({ r \in dbEmails : r.digest_sent /\ r.digest_sent_at = DigestTime(1) })
          > DigestRenderCap

\* C13: a send_digest call whose transport send fails commits one more
\* NotificationLog row, of type digest and status failed, changes no
\* ProcessedEmail row, answers success false with emails_included 0, and
\* leaves pending exactly the records it had selected.
C13_DigestFailure ==
    [][(digest'.calls = digest.calls + 1 /\ digest'.outcome = "failed") =>
          /\ dbLogs \subseteq dbLogs'
          /\ Cardinality(dbLogs' \ dbLogs) = 1
          /\ \A l \in dbLogs' \ dbLogs :
                /\ l.notification_type = "digest"
                /\ l.status = "failed"
                /\ l.lid = digest'.log
          /\ dbEmails' = dbEmails
          /\ ~digest'.success
          /\ digest'.emails_included = 0
          /\ digest'.selected # {}
          /\ { r.oid : r \in get_pending_digest_emails(dbEmails') } = digest'.selected
    ]_vars

\* a second call right after a failed one: it selected the same records
C13_Witness ==
    /\ digest.calls = 2
    /\ Cardinality({ l \in dbLogs : l.notification_type = "digest"
                                    /\ l.status = "failed" }) = 2
    /\ Cardinality(digest.selected) > DigestRenderCap
    /\ { r.oid : r \in get_pending_digest_emails(dbEmails) } = digest.selected

\* the row of learned_patterns with the key of pattern object w
RowOf(pats, w) == { p \in pats : SameKey(p, w) }

\* request q commits in this step, and no other request has been received
CommitsAlone(q) ==
    /\ req[q].pc = "commit"
    /\ req'[q].pc = "idle"
    /\ req'[q].status = 200
    /\ \A o \in Requests \ {q} : req[o].served = 0

\* C14: record_feedback on a key without pattern creates the pattern with
\* adjustment = delta and count = 1; on an existing pattern it increments
\* the count and sets adjustment = old*(1-weight) + delta*weight with
\* weight = min(0.5, 1/newCount); so as long as all the deltas given are
\* identical the adjustment is equal to delta, and never past it.
C14_FeedbackUpdateRule ==
    [][\A q \in Requests : CommitsAlone(q) =>
          \A w \in req[q].pending :
              \E new \in RowOf(patterns', w) :
                  /\ RowOf(patterns', w) = {new}
                  /\ IF RowOf(patterns, w) = {}
                     THEN /\ new.feedback_count = 1
                          /\ new.score_adjustment * 10 = w.adjustment
                     ELSE \E old \in RowOf(patterns, w) :
                          LET den == WeightDen(new.feedback_count)
                          IN  /\ new.feedback_count = old.feedback_count + 1
                              /\ new.score_adjustment * 10 * den =
                                    old.score_adjustment * 10 * (den - 1)
                                    + w.adjustment
                  /\ (\A f, g \in feedback' : f.feedback_type = g.feedback_type)
                        => new.score_adjustment * 10 = w.adjustment
    ]_vars

\* request q is answered with this status in this step
Answers(q, status) ==
    req[q].pc # "idle" /\ req'[q].pc = "idle" /\ req'[q].status = status

\* the pattern objects that request q must have recorded before its commit
ExpectedPending(q) ==
    LET email == FeedbackEmail(q)
        delta == IF req[q].feedback_type = "not_important" THEN -150 ELSE 100
    IN  /\ Cardinality(req[q].pending) = 2
        /\ \E w \in req[q].pending :
              /\ w.pattern_type = "sender"
              /\ w.pattern_value = Lower(email.sender_email)
              /\ w.adjustment = delta
        /\ \E w \in req[q].pending :
              /\ w.pattern_type = "domain"
              /\ w.pattern_value = DomainOf(Lower(email.sender_email))
              /\ 2 * w.adjustment = delta

\* C15: the feedback row, the sender pattern update (-0.15 for
\* not_important, +0.10 for important) and the domain pattern update (half
\* of it) become visible together, in the one step that answers 200; a
\* request that fails at any step leaves user_feedback and learned_patterns
\* as they were, and no other step changes them.
C15_FeedbackAtomic ==
    [][/\ \A q \in Requests :
            /\ Answers(q, 200) =>
                  /\ ExpectedPending(q)
                  /\ Cardinality(feedback' \ feedback) = 1
                  /\ feedback \subseteq feedback'
                  /\ \A f \in feedback' \ feedback :
                        /\ f.processed_email = req[q].email
                        /\ f.feedback_type = req[q].feedback_type
                  /\ \A w \in req[q].pending :
                        \E p \in patterns' :
                            /\ SameKey(p, w)
                            /\ p.feedback_count = w.feedback_count
                            /\ p.score_adjustment \in Numeric32(w.num, w.den)
            /\ Answers(q, 500) =>
                  feedback' = feedback /\ patterns' = patterns
       /\ (feedback' # feedback \/ patterns' # patterns) =>
            \E q \in Requests : Answers(q, 200)
    ]_vars

\* a request that failed after both patterns were recorded in its session,
\* while the table holds what another request committed
C15_Witness ==
    \E q \in Requests :
        /\ req[q].pc = "idle"
        /\ req[q].status = 500
        /\ Cardinality(req[q].pending) = 2
        /\ Cardinality(feedback) = 1
        /\ Cardinality(patterns) = 2

\* the adjustment given to a pattern of this type by feedback of this type
DeltaFor(pattern_type, feedback_type) ==
    LET delta == IF feedback_type = "not_important" THEN -150 ELSE 100
    IN  IF pattern_type = "sender" THEN delta ELSE delta \div 2

\* the keys of the patterns that feedback on the committed records touches
FeedbackKeys ==
    UNION { { << "sender", Lower(r.sender_email) >>,
              << "domain", DomainOf(Lower(r.sender_email)) >> }
            : r \in FeedbackRecords }

\* the committed feedback events of one type on the pattern with key k
EventsOn(k, feedback_type) ==
    { f \in feedback :
        /\ f.feedback_type = feedback_type
        /\ \E r \in FeedbackRecords :
              /\ r.oid = f.processed_email
              /\ k[2] = IF k[1] = "sender" THEN Lower(r.sender_email)
                        ELSE DomainOf(Lower(r.sender_email)) }

\* the rows that the pattern with key k can be after nn not_important and
\* ni important events applied one after the other, in any order
RECURSIVE SerialOutcomes(_, _, _)
SerialOutcomes(k, nn, ni) ==
    LET After(tables, feedback_type) ==
            UNION { PatternsWritten(t,
                        { record_feedback(t, k[1], k[2],
                                          DeltaFor(k[1], feedback_type)) })
                    : t \in tables }
    IN  IF nn = 0 /\ ni = 0 THEN { {} }
        ELSE (IF nn > 0
              THEN After(SerialOutcomes(k, nn - 1, ni), "not_important")
              ELSE {})
             \cup
             (IF ni > 0
              THEN After(SerialOutcomes(k, nn, ni - 1), "important")
              ELSE {})

\* C16: feedback events on the same pattern are serialized, also when the
\* requests overlap: the committed pattern is what the committed events give
\* when applied one after the other in some order, its count being the
\* number of events (two concurrent events raise it by 2, none is lost).
C16_FeedbackSerialized ==
    \A k \in FeedbackKeys :
        LET nn  == Cardinality(EventsOn(k, "not_important"))
            ni  == Cardinality(EventsOn(k, "important"))
            row == { p \in patterns : p.pattern_type = k[1] /\ p.pattern_value = k[2] }
        IN  /\ \A p \in row : p.feedback_count = nn + ni
            /\ row \in SerialOutcomes(k, nn, ni)

\* the oracle's score of a parseable reply
OracleScore(reply) ==
    IF reply.kind = "no_score" THEN DefaultOracleScore ELSE reply.score

\* s1: the oracle's score, with the boost of an allow-listed sender
BoostedScore(reply, whitelisted) ==
    IF whitelisted THEN Min(1000, OracleScore(reply) + 150) ELSE OracleScore(reply)

\* C17: on every entrypoint, the standalone script as well as /check-now, a
\* classification of a message from a sender with committed feedback adds
\* the total adjustment (sender pattern + domain pattern) to the score.
C17_FeedbackAppliedEverywhere ==
    (analysis.outcome = "returned" /\ analysis.reply.kind \in { "score", "no_score" }) =>
        LET s1    == BoostedScore(analysis.reply, analysis.whitelisted)
            total == get_total_adjustment(analysis.pats, analysis.sender)
        IN  (s1 + total >= 0 /\ s1 + total <= 1000) => analysis.score = s1 + total

\* the replies whose text is no JSON, or JSON of another shape than asked for
MalformedKinds == { "malformed", "not_object", "bad_score" }

\* C18: on malformed or non-parseable oracle output analyze_email does not
\* raise but returns the neutral fallback, score 0.5, or 0.65 for an
\* allow-listed sender; on a transport failure of the oracle it raises.
C18_ClassifierErrors ==
    analysis.outcome # "none" =>
        /\ analysis.reply.kind \in MalformedKinds =>
              /\ analysis.outcome = "returned"
              /\ analysis.score = IF analysis.whitelisted THEN 650 ELSE 500
        /\ analysis.reply.kind = "api_error" => analysis.outcome = "raised"

\* C19: on a parseable oracle result the final score is
\* clamp(s1 + totalAdjustment(sender), 0, 1), s1 being min(1.0, oracle + 0.15)
\* for an allow-listed sender and the oracle's score otherwise; an
\* allow-listed sender with oracle score 0.6 and no learned pattern gets
\* 0.75 and is routed Notify under the notify threshold 0.7.
C19_ScoreFormula ==
    (analysis.outcome = "returned" /\ analysis.reply.kind = "score") =>
        LET s1    == BoostedScore(analysis.reply, analysis.whitelisted)
            total == get_total_adjustment(analysis.pats, analysis.sender)
        IN  /\ analysis.score = Max(0, Min(1000, s1 + total))
            /\ ( /\ analysis.whitelisted
                 /\ analysis.reply.score = 600
                 /\ total = 0 ) =>
                    /\ analysis.score = 750
                    /\ (routed.route # "none"
                        /\ routed.params.importance_threshold = 700)
                          => routed.route = "notify"

\* record r was routed to an immediate alert: it has a pushover row in
\* notification_log, or is marked notification_sent
NotifyRoutedRecord(r) ==
    \/ r.notification_sent
    \/ \E l \in LogsOf(AllLogs, r) : l.notification_type = "pushover"

\* no record, committed or pending, is routed both ways
NotBothRouted == \A r \in AllEmails : ~(NotifyRoutedRecord(r) /\ r.digest_eligible)

\* C20: no ProcessedEmail is both Notify-routed and Digest-routed: a record
\* with a pushover NotificationLog row or notification_sent never has
\* digest_eligible, and the step that makes a record digest_eligible
\* dispatches no alert and writes no NotificationLog row.
C20_RoutingExclusive ==
    [][/\ NotBothRouted'
       /\ \A r \in sEmails' \ sEmails :
             r.digest_eligible => (alerts' = alerts /\ sLogs' = sLogs)
    ]_vars

\* a run that routed one message to an alert and another to the digest
C20_Witness ==
    /\ \E r \in AllEmails : r.digest_eligible /\ ~NotifyRoutedRecord(r)
    /\ \E r \in AllEmails : NotifyRoutedRecord(r) /\ ~r.digest_eligible
                            /\ LogsOf(AllLogs, r) # {}

\* C21: whatever triage runs and digest requests, successful or failed,
\* have taken place, every ProcessedEmail with digest_sent, committed or
\* pending, has digest_eligible.
C21_SentImpliesEligible ==
    \A r \in AllEmails : r.digest_sent => r.digest_eligible

\* a triage run after a failed and a successful digest, with a record that
\* was sent in the digest next to records that are not eligible
C21_Witness ==
    /\ runs = 2
    /\ pc = "returned"
    /\ digest.calls = 2
    /\ \E l \in dbLogs : l.notification_type = "digest" /\ l.status = "failed"
    /\ \E r \in dbEmails : r.digest_sent
    /\ \E r \in dbEmails : ~r.digest_eligible

DigestStep == digest' # digest

\* record r but for the two fields that send_digest writes
WithoutDigestSent(r) == [r EXCEPT !.digest_sent = FALSE, !.digest_sent_at = None]

\* C23: a ProcessedEmail is created once, by a triage run; a triage step
\* changes no field of a record that exists, committed or pending (a commit
\* moves the pending records to the table as they are, a rollback drops
\* them); a digest request changes digest_sent and digest_sent_at of the
\* records it selected, no other field and no other record, and no existing
\* NotificationLog row; notification_sent and digest_sent never go from
\* true to false.
C23_RecordLifecycle ==
    [][/\ ~DigestStep =>
             /\ dbEmails \subseteq dbEmails'
             /\ dbEmails' \ dbEmails \subseteq sEmails
             /\ sEmails \subseteq sEmails' \/ sEmails' = {}
             /\ \A n \in sEmails' \ sEmails :
                   \A r \in AllEmails : r.oid # n.oid
       /\ DigestStep =>
             /\ sEmails' = sEmails /\ sLogs' = sLogs
             /\ dbLogs \subseteq dbLogs'
             /\ Cardinality(dbEmails') = Cardinality(dbEmails)
             /\ \A r \in dbEmails :
                   \E n \in dbEmails' :
                       /\ n.oid = r.oid
                       /\ WithoutDigestSent(n) = WithoutDigestSent(r)
                       /\ n # r => r.oid \in digest'.selected
       /\ \A r \in dbEmails : \A n \in dbEmails' :
             n.oid = r.oid =>
                 /\ r.notification_sent => n.notification_sent
                 /\ r.digest_sent => n.digest_sent
    ]_vars

\* a triage run with pending records, after a digest that marked a record
\* of the run before
C23_Witness ==
    /\ runs = 2
    /\ sEmails # {}
    /\ digest.outcome = "sent"
    /\ \E r \in dbEmails : r.digest_sent /\ r.oid \in digest.selected
    /\ \E r \in sEmails : r.notification_sent

\* C24: send_digest called while no record is eligible and unsent returns
\* success with emails_included 0, does not call the transport, writes no
\* NotificationLog row and changes no record.
C24_NothingPending ==
    [][(/\ digest'.calls = digest.calls + 1
        /\ config.digest_enabled
        /\ \A r \in dbEmails : ~(r.digest_eligible /\ ~r.digest_sent)) =>
          /\ digest'.success
          /\ digest'.emails_included = 0
          /\ digest'.sends = digest.sends
          /\ dbLogs' = dbLogs
          /\ dbEmails' = dbEmails
    ]_vars

\* a call that found nothing pending after a digest that sent everything
C24_Witness ==
    /\ digest.calls = 2
    /\ digest.outcome = "empty"
    /\ digest.sends = 1
    /\ \E r \in dbEmails : r.digest_sent
    /\ \E l \in dbLogs : l.notification_type = "digest" /\ l.status = "sent"

\* the records that the last digest selected, and the one of its line 1
DigestListed == { r \in dbEmails : r.oid \in digest.selected }

DigestShown == { r \in dbEmails : r.oid \in digest.rendered }

DigestFirst == { r \in dbEmails : r.oid = digest.first }

\* the records of the digests are of one account, whose messages arrive in
\* the order of their message ids
ArrivedBefore(r, q) == r.message_id < q.message_id

\* the list is by score descending, as far as line 1 and the cut at ten lines
\* show it
ByScoreDescending ==
    /\ \A r \in DigestFirst : \A q \in DigestListed :
          r.importance_score >= q.importance_score
    /\ \A r \in DigestShown : \A q \in DigestListed \ DigestShown :
          r.importance_score >= q.importance_score

\* C25 (as stated): the records of a digest are listed by score descending,
\* records of equal score in arrival order, the highest score on line 1.
C25_TiesByArrival ==
    /\ ByScoreDescending
    /\ \A r \in DigestFirst : \A q \in DigestListed :
          (q # r /\ q.importance_score = r.importance_score) =>
              ArrivedBefore(r, q)
    /\ \A r \in DigestShown : \A q \in DigestListed \ DigestShown :
          q.importance_score = r.importance_score => ArrivedBefore(r, q)

\* C25 (amended): the records of a digest are listed by score descending and
\* a record of the highest score is on line 1; the order of records of equal
\* score is not determined.
C25_ScoreDescending == ByScoreDescending

\* a digest whose line 1 is the later of two records of the highest score
C25_Witness ==
    /\ digest.outcome = "sent"
    /\ \E r \in DigestFirst : \E q \in DigestListed :
          /\ q.importance_score = r.importance_score
          /\ ArrivedBefore(q, r)
    /\ \E q \in DigestListed : \E r \in DigestFirst :
          q.importance_score < r.importance_score

\* a committed record whose alert was dispatched and failed
FailedAlert(r) ==
    /\ ~r.notification_sent
    /\ \E l \in dbLogs : /\ l.processed_email = r.oid
                         /\ l.notification_type = "pushover"
                         /\ l.status = "failed"

\* the alerts that this step dispatched
Dispatched == sLogs' \ sLogs

\* C26: when the dispatch of a Notify-routed message fails, the run's commit
\* persists its record with notification_sent false and digest_eligible
\* false; afterwards the record stays as it is, no triage run dispatches an
\* alert for that message again and no digest selects it.
C26_NoAutomaticRetry ==
    [][/\ (pc = "commit" /\ lastCommit' = "ok") =>
             \A l \in sLogs : l.status = "failed" =>
                 \E r \in dbEmails' : /\ r.oid = l.processed_email
                                      /\ ~r.notification_sent
                                      /\ ~r.digest_eligible
       /\ \A r \in dbEmails : FailedAlert(r) =>
             /\ r \in dbEmails'
             /\ ~r.digest_eligible
             /\ \A l \in Dispatched :
                   << l.lid[1], l.lid[2] >> # << r.gmail_account_id, r.message_id >>
             /\ DigestStep => r.oid \notin digest'.selected
    ]_vars

\* a later run has fetched the message of a failed alert again and skipped
\* it, and a digest request was served in between
C26_Witness ==
    /\ runs = 2
    /\ digest.calls >= 1
    /\ pc = "loop"
    /\ idx > 1
    /\ outcomes[idx - 1] = "skipped"
    /\ \E r \in dbEmails : /\ FailedAlert(r)
                           /\ r.gmail_account_id = Cur
                           /\ r.message_id = batch[idx - 1]

\* both runs hold a pending record of message m, each with its own alert
BothProcessed(m) ==
    /\ \A w \in Requests : m \in req[w].analyzed
    /\ \A w \in Requests : \E l \in req[w].sLogs : l.lid[2] = m

\* C27: when two triage runs over one account overlap and both fetch the same
\* new message, the classifier and the transport are not both invoked twice
\* for it, and no run is rolled back on the unique constraint.
C27_ConcurrentDedup ==
    /\ \A m \in MsgIds(ConcurrentAccount) : ~BothProcessed(m)
    /\ \A w \in Requests : req[w].status # "unique"

\* the routing function on the score that the record stores (hundredths)
RouteOfRecord(r, params) == Route(10 * r.importance_score, params)

\* C28: for every record, the routing that was applied is the routing
\* function of its persisted 2-decimal score: an alert was dispatched exactly
\* for the records whose stored score routes to notify, and exactly the
\* records whose stored score routes to the digest are digest_eligible.
C28_RoutingAgreesWithRecord ==
    \A r \in sEmails :
        LET rt == RouteOfRecord(r, ProcessorParams(entry, config))
        IN  /\ rt = "notify" <=> \E l \in sLogs : l.processed_email = r.oid
            /\ rt = "digest" <=> r.digest_eligible

\* the result of an account whose fetch raised
FetchFailed(res) ==
    \E i \in 1..Len(res.errors) : res.errors[i][1] = "Failed to fetch emails"

\* the result of an account whose fetch did not return
NotFetched(res) ==
    \E i \in 1..Len(res.errors) :
        res.errors[i][1] \in { "Failed to fetch emails", "exc" }

\* this step is process_account returning after its fetch raised
FetchFailsStep ==
    /\ pc = "account"
    /\ Len(summary'.account_results) = Len(summary.account_results) + 1
    /\ FetchFailed(summary'.account_results[Len(summary'.account_results)])

\* the results of account a in the summary of the run
ResultsOf(a) ==
    { i \in 1..Len(summary.account_results) :
        summary.account_results[i].account_email = a }

\* C29: when the fetch of an account fails, process_account leaves the
\* account's last_history_id and last_check as they were and adds no record;
\* the checkpoint of an account is replaced only where its fetch returned,
\* in the session and, at the commit, in the table.
C29_CheckpointFrame ==
    [][/\ FetchFailsStep =>
             /\ sAccounts'[Cur] = sAccounts[Cur]
             /\ sEmails' = sEmails
             /\ sLogs' = sLogs
             /\ dbAccounts' = dbAccounts
       /\ \A a \in Accounts :
             /\ sAccounts'[a] # sAccounts[a] =>
                   \/ pc = "account" /\ pc' = "loop" /\ a = Cur
                   \/ sAccounts'[a] = dbAccounts'[a]
             /\ dbAccounts'[a] # dbAccounts[a] =>
                   /\ pc = "commit"
                   /\ \E i \in ResultsOf(a) : ~NotFetched(summary.account_results[i])
             /\ (pc = "commit" /\ ResultsOf(a) # {}
                    /\ \A i \in ResultsOf(a) : NotFetched(summary.account_results[i])) =>
                   dbAccounts'[a] = dbAccounts[a]
    ]_vars

\* the second run committed after the fetch of an account failed whose
\* checkpoint is older than its mailbox
C29_Witness ==
    /\ runs = 2
    /\ pc = "returned"
    /\ lastCommit = "ok"
    /\ \E a \in Accounts :
          /\ \E i \in ResultsOf(a) : FetchFailed(summary.account_results[i])
          /\ dbAccounts[a].last_history_id # NoHistoryId
          /\ dbAccounts[a].last_history_id # HistoryId(a)
          /\ \E b \in Accounts \ {a} : dbAccounts[b].last_history_id = HistoryId(b)

\* the senders of the records that feedback is given on
FeedbackSenders == { r.sender_email : r \in FeedbackRecords }

\* C30: after any sequence of feedback events, every sender pattern's
\* adjustment lies in [-0.15, +0.10], every domain pattern's in
\* [-0.075, +0.05], and the total adjustment of a sender in [-0.225, +0.15].
C30_AdjustmentsBounded ==
    /\ \A p \in patterns :
          IF p.pattern_type = "sender"
          THEN /\ NotImportantAdjustment <= 10 * p.score_adjustment
               /\ 10 * p.score_adjustment <= ImportantAdjustment
          ELSE /\ NotImportantAdjustment <= 2 * 10 * p.score_adjustment
               /\ 2 * 10 * p.score_adjustment <= ImportantAdjustment
    /\ \A s \in FeedbackSenders :
          /\ 2 * get_total_adjustment(patterns, s) >= 3 * NotImportantAdjustment
          /\ 2 * get_total_adjustment(patterns, s) <= 3 * ImportantAdjustment

====
